---------------------------- MODULE Spec2Model ----------------------------
(***************************************************************************)
(* Model of openstack_cleanup.py: the deletion orchestration engine.       *)
(*                                                                         *)
(* The program is single-threaded.  Its state is the inventory built by    *)
(* the cleaners' constructors, the position of the run inside              *)
(* OpenStackCleaners.clean(), and the locals of the loops that are live    *)
(* across remote calls.  The remote control plane is an external           *)
(* collaborator: every remote call either returns or raises one of a       *)
(* small set of errors, chosen nondeterministically at the call.  The      *)
(* floating IPs and ports the backend lists are a small world fixed at     *)
(* the start of the run.  `trace` records every remote call and every      *)
(* per-resource report in program order.                                   *)
(***************************************************************************)
EXTENDS Integers, Sequences, FiniteSets, TLC

\* Bound of the model: number of objects (inventory entries, listed
\* floating IPs, listed ports) of one run.
MaxObj == 2

\* the lines of a resource list file
MaxLines == 2

\* the resources a fetcher returns
MaxRes == 2

\* the kinds a supplied inventory holds
MaxSupplied == 1

\* the kinds whose list call raises
MaxFailing == 1

\* Program constants.
DEFAULT_RETRY_COUNT == 3
DEFAULT_INSTANCE_DELETE_RETRIES == 30
NETWORK_RETRY_COUNT == 3
SECGROUP_RETRY_COUNT == 3
VERIFY_MAX_ATTEMPTS == 10

VARIABLES
    dryrun,              \* opts.dryrun, handed to every cleaner
    resources,           \* kind -> sequence of ids: the cleaners' self.resources
    available_services,  \* AdvancedServicesCleaner.available_services
    fips,                \* floating IPs the backend lists: id -> attributes
    ports,               \* ports the backend lists: id -> attributes
    gone,                \* listed objects whose delete call has returned
    backend_empty,       \* the backend holds none of the inventory's resources
    step,                \* index into Program of the loop being run
    idx,                 \* index of the current item of that loop
    pc,                  \* position inside the loop body
    retry_count,         \* retry_count of the LB / network / security group loops
    deleting_instances,  \* ComputeCleaner.clean: deleting_instances
    wait_retry_count,    \* _wait_for_instance_deletion: retry_count
    attempt,             \* verify_resource_deleted: attempts made
    polled,              \* the checks of the polling loop that has just run
    lb_pending,          \* the PENDING states seen in the retry loop of a load balancer
    router_gw,           \* router.external_gateway_info of the fetched router
    router_fips,         \* NetworkCleaner.clean: router_fips (may be unbound)
    escaped,             \* an exception left OpenStackCleaners.clean()
    trace,               \* remote calls and reports, in program order
    lb_status,           \* LoadBalancerCleaner.clean: lb.provisioning_status of
                         \* the lb just fetched, "none" outside the iteration
    content,             \* get_resources_from_cleanup_log: the lines of the file
    line_no,             \* ... the line the for loop is at
    log_resources,       \* ... resources, the dict being built
    log_printed,         \* ... the kinds an error was printed for
    log_state,           \* ... "reading", "returned" or "raised"
    res_list,            \* build_resource_dict: its argument
    res_i,               \* ... the element the for loop is at
    built,               \* ... resources, the dict being built
    opts,                \* main: the parsed command line and the environment
    main_pc,             \* main: the statement it is at
    count,               \* main: count, or -1 before show_resources
    effects,             \* main: remote calls, prompt and clean(), in order
    exit_code,           \* main: its return value, or -1 while it runs
    supplied,            \* OpenStackCleaners.__init__: the resources argument
    failing,             \* ... the kinds whose list call raises
    probe_ok,            \* ... whether the DNS / Heat probe returns
    ctor_services,       \* ... AdvancedServicesCleaner.available_services
    cleaner_resources,   \* ... the cleaners' self.resources: kind -> dict
    list_calls,          \* ... the probes and list calls made, in order
    ctor_i               \* ... the step of the construction it is at

\* the state of OpenStackCleaners.clean()
cleaner_vars == <<dryrun, resources, available_services, fips, ports, gone,
                  backend_empty, step, idx,
                  pc, retry_count, deleting_instances, wait_retry_count, attempt,
                  router_gw, router_fips, escaped, trace, lb_status, polled,
                  lb_pending>>

\* the state of get_resources_from_cleanup_log, build_resource_dict and main
loader_vars == <<content, line_no, log_resources, log_printed, log_state>>

discovery_vars == <<res_list, res_i, built>>

main_vars == <<opts, main_pc, count, effects, exit_code>>

construct_vars == <<supplied, failing, probe_ok, ctor_services, cleaner_resources,
                    list_calls, ctor_i>>

startup == <<loader_vars, discovery_vars, main_vars, construct_vars>>

vars == <<cleaner_vars, startup>>

-----------------------------------------------------------------------------
(* Errors.  The handlers classify an exception by its class               *)
(* (except ResourceNotFound), by substrings of str(type(e)) and by        *)
(* substrings of str(e): an error is its class name and the set of        *)
(* markers its message contains.                                          *)

OK == [type |-> "ok", msg |-> {}]

\* no load balancer is in its retry loop
NoPending == [id |-> "none", n |-> 0]

\* no polling loop has just made its checks
NotPolled == [ret |-> "none", checks |-> 0, found |-> 0, last |-> "none", errs |-> {}]

Errs ==
    { [type |-> "ResourceNotFound",  msg |-> {}],
      [type |-> "ResourceNotFound",  msg |-> {"NotFound"}],
      [type |-> "ConflictException", msg |-> {"409"}],
      [type |-> "ConflictException", msg |-> {"409", "404"}],
      [type |-> "HttpException",     msg |-> {"in use"}],
      [type |-> "HttpException",     msg |-> {}] }

UnboundLocalError == [type |-> "UnboundLocalError", msg |-> {}]

\* what a call on a resource that is not there raises
GoneErrs == {e \in Errs : e.type = "ResourceNotFound"}

\* the results of a remote call on a resource
Results == IF backend_empty THEN GoneErrs ELSE {OK} \cup Errs

\* the results that tell apart the branches of the load balancer handlers,
\* which do not read the message for "in use"
Results3 == {r \in Results : "in use" \notin r.msg}

\* the results that tell apart the two branches of a handler that only asks
\* whether the error is a NotFound: success, a NotFound, another error
Results2 ==
    IF backend_empty THEN {[type |-> "ResourceNotFound", msg |-> {}]}
    ELSE {OK, [type |-> "ResourceNotFound", msg |-> {}],
          [type |-> "ConflictException", msg |-> {"409"}]}

\* the class of the result of a call, as the trace records it: the backend's
\* NotFound, its Conflict (409 / in use), a Conflict whose text has "404" in
\* it, any other error
Class(r) ==
    CASE r = OK -> "ok"
      [] r.type = "ResourceNotFound" -> "NotFound"
      [] r.type = "ConflictException" /\ "404" \in r.msg -> "Conflict404"
      [] r.type = "ConflictException" \/ "409" \in r.msg \/ "in use" \in r.msg
           -> "Conflict"
      [] OTHER -> "Error"

\* substrings of interest of str(type(e))
TypeHas(e, s) ==
    CASE e.type = "ResourceNotFound"  -> s \in {"NotFound", "ResourceNotFound"}
      [] e.type = "ConflictException" -> s \in {"Conflict", "ConflictException"}
      [] OTHER -> FALSE

IsResourceNotFound(e) == e.type = "ResourceNotFound"

NotFoundSniff(e) == TypeHas(e, "NotFound") \/ "404" \in e.msg

MsgNotFound(e) == "NotFound" \in e.msg

RouterConflictSniff(e) == TypeHas(e, "Conflict") \/ "409" \in e.msg

NetworkInUseSniff(e) ==
    TypeHas(e, "NetworkInUse") \/ "409" \in e.msg \/ "in use" \in e.msg

SecGroupConflictSniff(e) ==
    TypeHas(e, "Conflict") \/ "409" \in e.msg \/ "in use" \in e.msg

LbConflictSniff(e) == TypeHas(e, "ConflictException") \/ "409" \in e.msg

-----------------------------------------------------------------------------
(* The universe of one run.                                                *)

Kinds == {"heat_stacks", "dns_zones", "instances", "flavors", "keypairs",
          "images", "volumes", "volume_snapshots", "loadbalancers",
          "floating_ips", "sec_groups", "networks", "routers"}

IdOrder == <<"h1", "z1", "i1", "i2", "f1", "k1", "im1", "v1", "s1", "lb1",
             "fp1", "sg1", "n1", "r1", "p1">>

KindOf(id) ==
    CASE id = "h1"  -> "heat_stacks"
      [] id = "z1"  -> "dns_zones"
      [] id \in {"i1", "i2"} -> "instances"
      [] id = "f1"  -> "flavors"
      [] id = "k1"  -> "keypairs"
      [] id = "im1" -> "images"
      [] id = "v1"  -> "volumes"
      [] id = "s1"  -> "volume_snapshots"
      [] id = "lb1" -> "loadbalancers"
      [] id = "fp1" -> "floating_ips"
      [] id = "sg1" -> "sec_groups"
      [] id = "n1"  -> "networks"
      [] id = "r1"  -> "routers"
      [] OTHER      -> "ports"

InvIds  == {IdOrder[i] : i \in 1..14}
FipIds  == {"fp1"}
PortIds == {"p1"}

Range(s) == {s[i] : i \in DOMAIN s}

\* the members of S in the order of IdOrder
SeqOf(S) == SelectSeq(IdOrder, LAMBDA x : x \in S)

\* a floating IP: the router it is routed by, the device owning the port it is
\* bound to, and the instance whose addresses show it
FipAttrs ==
    { [router_id |-> "none", port_device |-> "none",  instance |-> "none"],
      [router_id |-> "r1",   port_device |-> "other", instance |-> "i1"],
      [router_id |-> "r1",   port_device |-> "r1",    instance |-> "none"] }

DeviceOwners == {"compute:nova", "network:dhcp", "network:router_interface",
                 "network:router_gateway", "network:floatingip"}

\* a port: its device owner, the device and network it belongs to, and
\* whether it has fixed IPs
PortAttrs ==
    { [device_owner |-> o,
       device_id |-> IF o \in {"network:router_interface", "network:router_gateway"}
                     THEN "r1" ELSE "other",
       network_id |-> "n1", fixed_ips |-> TRUE] : o \in DeviceOwners }


-----------------------------------------------------------------------------
(* Trace events.                                                           *)

Call(cat, op, id) ==
    [ev |-> "call", cat |-> cat, what |-> op, id |-> id, res |-> "", note |-> ""]

\* a mutating call and the class of its result
Did(cat, op, id, r) ==
    [ev |-> "call", cat |-> cat, what |-> op, id |-> id, res |-> Class(r),
     note |-> ""]

Rep(cat, out, rtype, id, note) ==
    [ev |-> "report", cat |-> cat, what |-> rtype, id |-> id, res |-> out,
     note |-> note]

\* a variant of report_deletion that ignores the dry-run flag
ReportDeletionAlways(cat, rtype, id) == Rep(cat, "deleted", rtype, id, "")

\* AbstractCleaner.report_deletion / report_not_found / report_error
ReportDeletion(cat, rtype, id) ==
    Rep(cat, IF dryrun THEN "would_delete" ELSE "deleted", rtype, id, "")

ReportNotFound(cat, rtype, id) == Rep(cat, "not_found", rtype, id, "")

ReportError(cat, rtype, id, note) == Rep(cat, "error", rtype, id, note)

MutatingOps ==
    {"delete_stack", "delete_zone", "delete_server", "delete_flavor",
     "delete_keypair", "delete_image", "delete_volume", "delete_snapshot",
     "delete_load_balancer", "delete_ip", "delete_port", "delete_router",
     "delete_network", "delete_security_group", "update_router",
     "remove_interface_from_router"}

RECURSIVE Flatten(_)
Flatten(ss) == IF ss = <<>> THEN <<>> ELSE Head(ss) \o Flatten(Tail(ss))

IsRead(e) == e.ev = "call" /\ e.what \notin MutatingOps

\* the reads at the end of tr, back to the last event that is not a read
RECURSIVE TrailingReads(_)
TrailingReads(tr) ==
    IF tr = <<>> \/ ~IsRead(tr[Len(tr)]) THEN {}
    ELSE {tr[Len(tr)]} \cup TrailingReads(SubSeq(tr, 1, Len(tr) - 1))

\* tr extended by the events evs.  A poll loop repeats the same reads until
\* something else happens: a read already made since the last event that is
\* not a read is recorded once.
RECURSIVE Log(_, _)
Log(tr, evs) ==
    IF evs = <<>> THEN tr
    ELSE LET e == Head(evs) IN
         Log(IF IsRead(e) /\ e \in TrailingReads(tr) THEN tr ELSE Append(tr, e),
             Tail(evs))

-----------------------------------------------------------------------------
(* The order of the run: OpenStackCleaners.clean() runs the cleaners in    *)
(* the order of their construction, and each clean() runs its loops in a   *)
(* fixed order.                                                            *)

\* variants of the construction order: Storage before Compute, and Network
\* before everything else
CleanerOrderStorageFirst ==
    <<"AdvancedServices", "Storage", "Compute", "LoadBalancer", "Network">>

CleanerOrderNetworkFirst ==
    <<"Network", "AdvancedServices", "Compute", "Storage", "LoadBalancer">>

CleanerOrder ==
    <<"AdvancedServices", "Compute", "Storage", "LoadBalancer", "Network">>

\* a variant in which the Network cleaner deletes the security groups before
\* the routers and the networks
StepsOfSecGroupsFirst(cat) ==
    CASE cat = "AdvancedServices" -> <<"heat", "dns">>
      [] cat = "Compute"      -> <<"instances", "wait", "flavors", "keypairs", "images">>
      [] cat = "Storage"      -> <<"volumes", "snapshots">>
      [] cat = "LoadBalancer" -> <<"lb">>
      [] cat = "Network"      -> <<"net_fips", "fip_sweep", "port_sweep", "secgroups",
                                   "routers", "networks">>

\* a variant in which the DNS zones are cleaned before the Heat stacks
StepsOfDnsFirst(cat) ==
    CASE cat = "AdvancedServices" -> <<"dns", "heat">>
      [] cat = "Compute"      -> <<"instances", "wait", "flavors", "keypairs", "images">>
      [] cat = "Storage"      -> <<"volumes", "snapshots">>
      [] cat = "LoadBalancer" -> <<"lb">>
      [] cat = "Network"      -> <<"net_fips", "fip_sweep", "port_sweep", "routers",
                                   "networks", "secgroups">>

StepsOf(cat) ==
    CASE cat = "AdvancedServices" -> <<"heat", "dns">>
      [] cat = "Compute"      -> <<"instances", "wait", "flavors", "keypairs", "images">>
      [] cat = "Storage"      -> <<"volumes", "snapshots">>
      [] cat = "LoadBalancer" -> <<"lb">>
      [] cat = "Network"      -> <<"net_fips", "fip_sweep", "port_sweep", "routers",
                                   "networks", "secgroups">>

Program == Flatten([i \in DOMAIN CleanerOrder |-> StepsOf(CleanerOrder[i])])

\* the inventory slice a loop iterates over
Items(name) ==
    CASE name = "heat"      -> resources["heat_stacks"]
      [] name = "dns"       -> resources["dns_zones"]
      [] name = "instances" -> resources["instances"]
      [] name = "flavors"   -> resources["flavors"]
      [] name = "keypairs"  -> resources["keypairs"]
      [] name = "images"    -> resources["images"]
      [] name = "volumes"   -> resources["volumes"]
      [] name = "snapshots" -> resources["volume_snapshots"]
      [] name = "lb"        -> resources["loadbalancers"]
      [] name = "net_fips"  -> resources["floating_ips"]
      [] name = "routers"   -> resources["routers"]
      [] name = "networks"  -> resources["networks"]
      [] name = "secgroups" -> resources["sec_groups"]
      [] OTHER              -> <<>>

AnyService == available_services["dns"] \/ available_services["heat"]

\* whether the loop has a pass to make; di is deleting_instances on entry
\* a variant that never waits for the instances to disappear
HasWorkNoWait(name, di) ==
    CASE name = "heat" -> AnyService /\ available_services["heat"] /\ Items(name) # <<>>
      [] name = "dns"  -> AnyService /\ available_services["dns"] /\ Items(name) # <<>>
      [] name = "wait" -> FALSE
      [] name \in {"fip_sweep", "port_sweep"} -> TRUE
      [] OTHER -> Items(name) # <<>>

HasWork(name, di) ==
    CASE name = "heat" -> AnyService /\ available_services["heat"] /\ Items(name) # <<>>
      [] name = "dns"  -> AnyService /\ available_services["dns"] /\ Items(name) # <<>>
      [] name = "wait" -> ~dryrun /\ di # <<>>
      [] name \in {"fip_sweep", "port_sweep"} -> TRUE
      [] OTHER -> Items(name) # <<>>

RECURSIVE NextStep(_, _)
NextStep(s, di) ==
    IF s > Len(Program) THEN s
    ELSE IF HasWork(Program[s], di) THEN s ELSE NextStep(s + 1, di)

PcOf(s) == IF s > Len(Program) THEN "done" ELSE Program[s]

\* the value retry_count is set to at the start of each pass of a loop
RetryBudget(name) ==
    CASE name = "networks"  -> NETWORK_RETRY_COUNT
      [] name = "secgroups" -> SECGROUP_RETRY_COUNT
      [] OTHER              -> DEFAULT_RETRY_COUNT

\* the current item of the current loop
Cur == Items(Program[step])[idx]

\* control moves to the loop at or after s that has a pass to make
Enter(s, di) ==
    LET n == NextStep(s, di) IN
    /\ step' = n
    /\ idx' = 1
    /\ pc' = PcOf(n)
    /\ retry_count' = RetryBudget(PcOf(n))
    /\ escaped' = FALSE

\* the current pass is over: next item of the loop, or the next loop
Advance(di) ==
    IF idx < Len(Items(Program[step]))
    THEN /\ step' = step
         /\ idx' = idx + 1
         /\ pc' = Program[step]
         /\ retry_count' = RetryBudget(Program[step])
         /\ escaped' = FALSE
    ELSE Enter(step + 1, di)

\* a variant that starts every iteration of a retry loop with the full budget
StayFullBudget(p, rc) ==
    /\ step' = step
    /\ idx' = idx
    /\ pc' = p
    /\ retry_count' = RetryBudget(p)
    /\ escaped' = FALSE

\* control stays in the current pass, at position p
Stay(p, rc) ==
    /\ step' = step
    /\ idx' = idx
    /\ pc' = p
    /\ retry_count' = rc
    /\ escaped' = FALSE

\* an exception leaves clean(): the run is over
Escape ==
    /\ step' = step
    /\ idx' = idx
    /\ pc' = "aborted"
    /\ retry_count' = retry_count
    /\ escaped' = TRUE

\* after a handler's verdict v on the current item
Handled(v, di) == IF v = "raise" THEN Escape ELSE Advance(di)

-----------------------------------------------------------------------------
(* Dicts: a dict is a function; an assignment d[k] = v adds or replaces    *)
(* the key k.                                                              *)

EmptyDict == [k \in {} |-> ""]

Put(d, k, v) == [x \in (DOMAIN d) \cup {k} |-> IF x = k THEN v ELSE d[x]]

-----------------------------------------------------------------------------
(* get_resources_from_cleanup_log.  A line of the file is a sequence of    *)
(* symbols: the separator "|", white space, and words.                     *)

White == {" ", "\n"}

\* str.strip(): the white space at both ends is removed
RECURSIVE LStrip(_)
LStrip(s) == IF s # <<>> /\ Head(s) \in White THEN LStrip(Tail(s)) ELSE s

RECURSIVE RStrip(_)
RStrip(s) ==
    IF s # <<>> /\ s[Len(s)] \in White THEN RStrip(SubSeq(s, 1, Len(s) - 1)) ELSE s

Strip(s) == RStrip(LStrip(s))

\* str.split('|'): the strings between the separators, empty ones included
RECURSIVE Split(_)
Split(s) ==
    IF s = <<>> THEN <<"">>
    ELSE LET rest == Split(Tail(s)) IN
         IF Head(s) = "|" THEN <<"">> \o rest
         ELSE <<Head(s) \o Head(rest)>> \o Tail(rest)

\* a variant that reads the fields of a line as type|id|name
LogFieldsIdFirst(tokens) ==
    [restype |-> tokens[1], resname |-> tokens[3], resid |-> tokens[2]]

\* restype = tokens[0]; resname = tokens[1]; resid = tokens[2]
LogFields(tokens) ==
    [restype |-> tokens[1], resname |-> tokens[2], resid |-> tokens[3]]

\* the lines a file is made of
FileLines ==
    { <<"keypairs", "|", "|", "kp1", "\n">>,
      <<"keypairs", "|", "kp1", "|", "\n">>,
      <<"keypairs", "|", "kp2", "|", "k-2", "\n">>,
      <<"volumes", "|", "|", "vol1", "\n">>,
      <<"volumes", "|", "vol1", "|", "\n">>,
      <<"volumes", "|", "vol2", "|", "v-2", "\n">>,
      <<"instances", "|", "vm1", "|", "i-1", "\n">>,
      <<"volumes", "|", "vol3", "\n">>,
      <<"\n">> }

\* one pass of the for loop over the lines; tokens[1] or tokens[2] of a line
\* with fewer than three fields raises IndexError
ReadLine ==
    /\ log_state = "reading"
    /\ line_no <= Len(content)
    /\ LET tokens == Split(Strip(content[line_no])) IN
       IF Len(tokens) < 3
       THEN /\ log_state' = "raised"
            /\ UNCHANGED <<line_no, log_resources, log_printed>>
       ELSE LET f == LogFields(tokens)
                resid == IF f.resid = "" /\ f.restype = "keypairs" THEN "0"
                         ELSE f.resid
                tres == IF f.restype \in DOMAIN log_resources
                        THEN log_resources[f.restype] ELSE EmptyDict
            IN  /\ log_printed' =
                      IF f.resid = "" /\ f.restype # "keypairs"
                      THEN Append(log_printed, f.restype) ELSE log_printed
                /\ log_resources' =
                      Put(log_resources, f.restype, Put(tres, resid, f.resname))
                /\ line_no' = line_no + 1
                /\ log_state' = "reading"
    /\ UNCHANGED <<content, cleaner_vars, construct_vars, discovery_vars, main_vars>>

\* return resources
LoaderReturn ==
    /\ log_state = "reading"
    /\ line_no > Len(content)
    /\ log_state' = "returned"
    /\ UNCHANGED <<content, line_no, log_resources, log_printed, cleaner_vars, construct_vars,
                   discovery_vars, main_vars>>

-----------------------------------------------------------------------------
(* build_resource_dict.  A text is a sequence of words; '' and None are    *)
(* the empty text.                                                         *)

\* resource_name_re.search(text), resource_name_re being the default
\* '.*test-cluster.*'
Search(text) == \E i \in DOMAIN text : text[i] = "test-cluster"

Texts == {<<>>, <<"test-cluster">>, <<"prod">>}

\* resdesc[:50] + "..." if len(resdesc) > 50 else resdesc
Truncated(resdesc) ==
    IF Len(resdesc) > 50 THEN SubSeq(resdesc, 1, 50) \o <<"...">> ELSE resdesc

\* the resources a fetcher returns: with or without a name attribute, and
\* floating IPs, whose name is their address
Fetched ==
    { r \in [id : {"id1", "id2"}, has_name : BOOLEAN, name : Texts,
             description : Texts, is_fip : {FALSE},
             floating_ip_address : {<<>>}] :
        ~r.has_name => r.name = <<>> }
    \cup
    [id : {"id1", "id2"}, has_name : {TRUE}, name : {<<"10.0.0.5">>},
     description : Texts, is_fip : {TRUE}, floating_ip_address : {<<"10.0.0.5">>}]

\* resname, after the special handling of floating IPs
ResName(res) ==
    IF res.is_fip
    THEN res.floating_ip_address \o
         (IF res.description # <<>>
          THEN <<"(desc:">> \o Truncated(res.description) \o <<")">> ELSE <<>>)
    ELSE IF res.has_name THEN res.name ELSE <<res.id>>

\* if resname and (search(resname) or (resdesc and search(resdesc)))
Kept(res) ==
    /\ ResName(res) # <<>>
    /\ \/ Search(ResName(res))
       \/ (res.description # <<>> /\ Search(res.description))

\* one pass of the for loop over res_list
BuildStep ==
    /\ res_i <= Len(res_list)
    /\ LET res == res_list[res_i] IN
       built' = IF Kept(res) THEN Put(built, res.id, ResName(res)) ELSE built
    /\ res_i' = res_i + 1
    /\ UNCHANGED <<res_list, cleaner_vars, construct_vars, loader_vars, main_vars>>

-----------------------------------------------------------------------------
(* main.  opts is the parsed command line together with what main reads    *)
(* from the environment: whether an rc file is given, exists and sets      *)
(* OS_AUTH_URL, whether OS_AUTH_URL is set, whether the list file loads.   *)

Options ==
    [rc : {"none", "missing", "with_url", "without_url"}, cloud : BOOLEAN,
     file : {"none", "loads", "raises"}, dryrun : BOOLEAN,
     filter : {"none", "valid", "invalid"}, auto_approve : BOOLEAN,
     OS_AUTH_URL : BOOLEAN]

\* a variant that builds the cleaners before it compiles the filter
MainOrderCleanersFirst ==
    <<"options", "credentials", "file", "cleaners", "filter", "show", "prompt",
      "clean">>

\* the statements of main, in order
MainOrder ==
    <<"options", "credentials", "file", "filter", "cleaners", "show", "prompt",
      "clean">>

\* main goes on with the statement after its current one
GoOn ==
    LET i == CHOOSE k \in DOMAIN MainOrder : MainOrder[k] = main_pc IN
    /\ main_pc' = MainOrder[i + 1]
    /\ exit_code' = exit_code

\* return code, sys.exit(code), or an exception nobody catches (code 1)
Exit(code) ==
    /\ main_pc' = "exit"
    /\ exit_code' = code

\* Credentials.__init__ and _validate_auth: cred.rc_auth_url is set
RcAuthUrl(o) ==
    /\ o.rc # "missing"
    /\ ~o.cloud
    /\ o.OS_AUTH_URL \/ o.rc = "with_url"

\* if opts.rc and opts.cloud: return 1
CheckOptions ==
    /\ main_pc = "options"
    /\ IF opts.rc # "none" /\ opts.cloud THEN Exit(1) ELSE GoOn
    /\ UNCHANGED <<opts, count, effects, cleaner_vars, construct_vars, loader_vars, discovery_vars>>

\* cred = Credentials(opts.rc, opts.cloud) and the check of its auth URL
MakeCredentials ==
    /\ main_pc = "credentials"
    /\ IF ~opts.cloud /\ ~RcAuthUrl(opts) THEN Exit(1) ELSE GoOn
    /\ UNCHANGED <<opts, count, effects, cleaner_vars, construct_vars, loader_vars, discovery_vars>>

\* if opts.file: resources = get_resources_from_cleanup_log(opts.file)
LoadFile ==
    /\ main_pc = "file"
    /\ IF opts.file = "raises" THEN Exit(1) ELSE GoOn
    /\ UNCHANGED <<opts, count, effects, cleaner_vars, construct_vars, loader_vars, discovery_vars>>

\* resource_name_re = re.compile(opts.filter)
CompileFilter ==
    /\ main_pc = "filter"
    /\ IF opts.filter = "invalid" THEN Exit(1) ELSE GoOn
    /\ UNCHANGED <<opts, count, effects, cleaner_vars, construct_vars, loader_vars, discovery_vars>>

\* cleaners = OpenStackCleaners(cred, resources, opts.dryrun): the session is
\* created, the DNS and Heat services are probed, and without a list file
\* the resources are listed; a session that cannot be created raises
MakeCleaners ==
    /\ main_pc = "cleaners"
    /\ \E connected \in BOOLEAN :
         IF ~connected
         THEN /\ effects' = effects \o <<"session">>
              /\ Exit(1)
         ELSE /\ effects' = effects \o <<"session", "probe", "probe">> \o
                            (IF opts.file = "none" THEN <<"list">> ELSE <<>>)
              /\ GoOn
    /\ UNCHANGED <<opts, count, cleaner_vars, construct_vars, loader_vars, discovery_vars>>

\* a variant that goes on with an empty inventory
NoResourcesNever(c) == FALSE

\* if not count
NoResources(c) == c = 0

\* count = cleaners.show_resources(); if not count: return 0
ShowResources ==
    /\ main_pc = "show"
    /\ \E c \in 0..MaxObj :
         /\ count' = c
         /\ IF NoResources(c) THEN Exit(0) ELSE GoOn
    /\ UNCHANGED <<opts, effects, cleaner_vars, construct_vars, loader_vars, discovery_vars>>

\* what the operator may type at the prompt
Answers == {"y", "Y", "n", ""}

\* a variant that takes every answer as a confirmation
ConfirmedAlways(answer) == TRUE

\* answer.lower() == 'y'
Confirmed(answer) == answer \in {"y", "Y"}

\* if not opts.file and not opts.dryrun: prompt_to_run(opts.auto_approve)
Prompt ==
    /\ main_pc = "prompt"
    /\ IF opts.file # "none" \/ opts.dryrun
       THEN effects' = effects /\ GoOn
       ELSE IF opts.auto_approve
       THEN effects' = effects /\ GoOn
       ELSE \E answer \in Answers :
              /\ effects' = effects \o <<"prompt", answer>>
              /\ IF ~Confirmed(answer) THEN Exit(0) ELSE GoOn
    /\ UNCHANGED <<opts, count, cleaner_vars, construct_vars, loader_vars, discovery_vars>>

\* cleaners.clean(); return 0
Clean ==
    /\ main_pc = "clean"
    /\ effects' = Append(effects, "clean")
    /\ Exit(0)
    /\ UNCHANGED <<opts, count, cleaner_vars, construct_vars, loader_vars, discovery_vars>>

-----------------------------------------------------------------------------
(* OpenStackCleaners.__init__: the five cleaners are built in turn, and     *)
(* AbstractCleaner.__init__ fills self.resources kind by kind.              *)

\* the probes of AdvancedServicesCleaner, then the kinds of each cleaner's
\* res_desc, in the order the cleaners are built
ConstructOrder ==
    <<"probe", "dns_zones", "heat_stacks", "instances", "flavors", "keypairs",
      "images", "volumes", "volume_snapshots", "loadbalancers", "floating_ips",
      "sec_groups", "networks", "routers">>

\* what the backend lists for a kind: a resource the filter matches and one
\* it does not match
Listing(kind) ==
    IF kind = "floating_ips"
    THEN << [id |-> "id1", has_name |-> TRUE, name |-> <<"10.0.0.5">>,
             description |-> <<"test-cluster">>, is_fip |-> TRUE,
             floating_ip_address |-> <<"10.0.0.5">>],
            [id |-> "id2", has_name |-> TRUE, name |-> <<"10.0.0.5">>,
             description |-> <<>>, is_fip |-> TRUE,
             floating_ip_address |-> <<"10.0.0.5">>] >>
    ELSE << [id |-> "id1", has_name |-> TRUE, name |-> <<"test-cluster">>,
             description |-> <<>>, is_fip |-> FALSE,
             floating_ip_address |-> <<>>],
            [id |-> "id2", has_name |-> TRUE, name |-> <<"prod">>,
             description |-> <<>>, is_fip |-> FALSE,
             floating_ip_address |-> <<>>] >>

\* a variant that lets the exception of a fetcher through
FetchHandlerRaises(kind) == "raise"

\* fetch_resources: except Exception ... return []
FetchHandler(kind) == "empty"

\* fetch_resources(fetcher) when no exception leaves it
FetchResources(kind) == IF kind \in failing THEN <<>> ELSE Listing(kind)

\* build_resource_dict(res_list), the loop of BuildStep run to its end
RECURSIVE BuildFrom(_, _, _)
BuildFrom(rl, i, acc) ==
    IF i > Len(rl) THEN acc
    ELSE BuildFrom(rl, i + 1,
                   IF Kept(rl[i]) THEN Put(acc, rl[i].id, ResName(rl[i])) ELSE acc)

BuildResourceDict(rl) == BuildFrom(rl, 1, EmptyDict)

\* the entries a supplied inventory holds for a kind
SuppliedEntries == Put(EmptyDict, "sup1", <<"prod-db">>)

\* the resources argument: None, or the dict loaded from the list file
Supplied ==
    {[given |-> FALSE, dict |-> EmptyDict]} \cup
    {[given |-> TRUE, dict |-> [k \in S |-> SuppliedEntries]] :
        S \in {T \in SUBSET Kinds : Cardinality(T) <= MaxSupplied}}

\* the kind is in the res_desc of its cleaner: dns_zones and heat_stacks
\* only when their service answered the probe
InResDesc(kind) ==
    CASE kind = "dns_zones"   -> ctor_services["dns"]
      [] kind = "heat_stacks" -> ctor_services["heat"]
      [] OTHER                -> TRUE

\* if resources and rtype in resources
UseSupplied(kind) == supplied.dict # EmptyDict /\ kind \in DOMAIN supplied.dict

\* AdvancedServicesCleaner.__init__: list(conn.dns.zones(limit=1)) and
\* list(conn.orchestration.stacks(limit=1)) inside try / except
Probe ==
    /\ ctor_i <= Len(ConstructOrder)
    /\ ConstructOrder[ctor_i] = "probe"
    /\ ctor_services' = probe_ok
    /\ list_calls' = list_calls \o <<"probe_dns", "probe_heat">>
    /\ ctor_i' = ctor_i + 1
    /\ UNCHANGED <<supplied, failing, probe_ok, cleaner_resources, cleaner_vars,
                   loader_vars, discovery_vars, main_vars>>

\* AbstractCleaner.__init__: one pass of for rtype, fetch_args in res_desc
Discover ==
    /\ ctor_i <= Len(ConstructOrder)
    /\ ConstructOrder[ctor_i] # "probe"
    /\ LET rtype == ConstructOrder[ctor_i] IN
       IF ~InResDesc(rtype)
       THEN /\ ctor_i' = ctor_i + 1
            /\ UNCHANGED <<cleaner_resources, list_calls>>
       ELSE IF UseSupplied(rtype)
       THEN /\ cleaner_resources' =
                  Put(cleaner_resources, rtype,
                      IF rtype \in DOMAIN supplied.dict THEN supplied.dict[rtype]
                      ELSE EmptyDict)
            /\ ctor_i' = ctor_i + 1
            /\ UNCHANGED list_calls
       ELSE /\ list_calls' = Append(list_calls, rtype)
            /\ IF rtype \in failing /\ FetchHandler(rtype) = "raise"
               THEN /\ ctor_i' = Len(ConstructOrder) + 1
                    /\ UNCHANGED cleaner_resources
               ELSE /\ cleaner_resources' =
                          Put(cleaner_resources, rtype,
                              BuildResourceDict(FetchResources(rtype)))
                    /\ ctor_i' = ctor_i + 1
    /\ UNCHANGED <<supplied, failing, probe_ok, ctor_services, cleaner_vars,
                   loader_vars, discovery_vars, main_vars>>

-----------------------------------------------------------------------------
(* Each part of the program is run on its own: the parts that are not run  *)
(* stay as they are.                                                       *)

\* the cleaners are not being built
ConstructUnused ==
    /\ supplied = [given |-> FALSE, dict |-> EmptyDict]
    /\ failing = {}
    /\ probe_ok = [dns |-> FALSE, heat |-> FALSE]
    /\ ctor_services = [dns |-> FALSE, heat |-> FALSE]
    /\ cleaner_resources = EmptyDict
    /\ list_calls = <<>>
    /\ ctor_i = 1

LoaderUnused ==
    /\ content = <<>>
    /\ line_no = 1
    /\ log_resources = EmptyDict
    /\ log_printed = <<>>
    /\ log_state = "returned"

DiscoveryUnused ==
    /\ res_list = <<>>
    /\ res_i = 1
    /\ built = EmptyDict

\* main has called cleaners.clean()
MainInClean ==
    /\ opts = [rc |-> "none", cloud |-> TRUE, file |-> "none", dryrun |-> dryrun,
               filter |-> "none", auto_approve |-> TRUE, OS_AUTH_URL |-> FALSE]
    /\ main_pc = "clean"
    /\ count = Cardinality(UNION {Range(resources[k]) : k \in Kinds})
    /\ effects = <<>>
    /\ exit_code = -1

\* the cleaners are not built
CleanersUnused ==
    /\ dryrun = FALSE
    /\ resources = [k \in Kinds |-> <<>>]
    /\ available_services = [dns |-> FALSE, heat |-> FALSE]
    /\ fips = <<>>
    /\ ports = <<>>
    /\ gone = {}
    /\ backend_empty = FALSE
    /\ deleting_instances = <<>>
    /\ wait_retry_count = DEFAULT_INSTANCE_DELETE_RETRIES
    /\ attempt = 0
    /\ router_gw = FALSE
    /\ router_fips = [bound |-> FALSE, val |-> <<>>]
    /\ escaped = FALSE
    /\ trace = <<>>
    /\ lb_status = "none"
    /\ polled = NotPolled
    /\ lb_pending = NoPending
    /\ step = 1
    /\ idx = 1
    /\ pc = "unused"
    /\ retry_count = DEFAULT_RETRY_COUNT

\* the sequences over S of length 1..n
SeqsUpTo(S, n) == UNION {[1..k -> S] : k \in 1..n}

\* get_resources_from_cleanup_log is called on a file of one to MaxLines lines
LoaderInit ==
    /\ content \in SeqsUpTo(FileLines, MaxLines)
    /\ line_no = 1
    /\ log_resources = EmptyDict
    /\ log_printed = <<>>
    /\ log_state = "reading"
    /\ CleanersUnused /\ DiscoveryUnused /\ MainInClean /\ ConstructUnused

LoaderNext == ReadLine \/ LoaderReturn

LoaderSpec == LoaderInit /\ [][LoaderNext]_vars

\* build_resource_dict is called on the result of a fetcher
DiscoveryInit ==
    /\ res_list \in SeqsUpTo(Fetched, MaxRes)
    /\ res_i = 1
    /\ built = EmptyDict
    /\ CleanersUnused /\ LoaderUnused /\ MainInClean /\ ConstructUnused

DiscoveryNext == BuildStep

DiscoverySpec == DiscoveryInit /\ [][DiscoveryNext]_vars

\* main is called
MainInit ==
    /\ opts \in Options
    /\ main_pc = MainOrder[1]
    /\ count = -1
    /\ effects = <<>>
    /\ exit_code = -1
    /\ CleanersUnused /\ LoaderUnused /\ DiscoveryUnused /\ ConstructUnused

MainNext ==
    \/ CheckOptions
    \/ MakeCredentials
    \/ LoadFile
    \/ CompileFilter
    \/ MakeCleaners
    \/ ShowResources
    \/ Prompt
    \/ Clean

MainSpec == MainInit /\ [][MainNext]_vars

\* OpenStackCleaners(cred, resources, dryrun) is called
ConstructInit ==
    /\ supplied \in Supplied
    /\ failing \in {T \in SUBSET Kinds : Cardinality(T) <= MaxFailing}
    /\ probe_ok \in [dns : BOOLEAN, heat : BOOLEAN]
    /\ ctor_services = [dns |-> FALSE, heat |-> FALSE]
    /\ cleaner_resources = EmptyDict
    /\ list_calls = <<>>
    /\ ctor_i = 1
    /\ CleanersUnused /\ LoaderUnused /\ DiscoveryUnused /\ MainInClean

ConstructNext == Probe \/ Discover

ConstructSpec == ConstructInit /\ [][ConstructNext]_vars

-----------------------------------------------------------------------------
(* The state when main() calls cleaners.clean(): the inventory is built    *)
(* and is not empty.                                                       *)

Scenarios ==
    { sc \in [inv : SUBSET InvIds, wf : SUBSET FipIds, wp : SUBSET PortIds] :
        /\ sc.inv # {}
        /\ Cardinality(sc.inv \cup sc.wf \cup sc.wp) <= MaxObj }

Init ==
    /\ dryrun \in BOOLEAN
    /\ \E sc \in Scenarios :
         /\ resources = [k \in Kinds |-> SeqOf({x \in sc.inv : KindOf(x) = k})]
         /\ fips \in [sc.wf -> FipAttrs]
         /\ ports \in [sc.wp -> PortAttrs]
    /\ available_services = [dns  |-> resources["dns_zones"] # <<>>,
                             heat |-> resources["heat_stacks"] # <<>>]
    /\ gone = {}
    /\ backend_empty \in BOOLEAN
    /\ deleting_instances = resources["instances"]
    /\ wait_retry_count = DEFAULT_INSTANCE_DELETE_RETRIES
    /\ attempt = 0
    /\ router_gw = FALSE
    /\ router_fips = [bound |-> FALSE, val |-> <<>>]
    /\ escaped = FALSE
    /\ trace = <<>>
    /\ step = NextStep(1, resources["instances"])
    /\ idx = 1
    /\ pc = PcOf(step)
    /\ retry_count = RetryBudget(pc)
    /\ lb_status = "none"
    /\ polled = NotPolled
    /\ lb_pending = NoPending
    /\ LoaderUnused /\ DiscoveryUnused /\ MainInClean /\ ConstructUnused


config == <<dryrun, resources, available_services, fips, ports, backend_empty,
            startup>>

\* the report a handler's verdict produces
VerdictRep(cat, rtype, id, v) ==
    CASE v = "not_found"     -> <<ReportNotFound(cat, rtype, id)>>
      [] v = "error"         -> <<ReportError(cat, rtype, id, "")>>
      [] v = "conflict"      -> <<ReportError(cat, rtype, id, "conflict")>>
      [] v = "after_retries" -> <<ReportError(cat, rtype, id, "after retries")>>
      [] OTHER               -> <<>>

-----------------------------------------------------------------------------
(* AdvancedServicesCleaner.clean                                           *)

HeatHandler(e) == IF MsgNotFound(e) THEN "not_found" ELSE "error"

DnsHandler(e) == IF MsgNotFound(e) THEN "not_found" ELSE "error"

HeatOps == <<"get_stack", "delete_stack", "wait_for_delete">>

\* one pass of the Heat stack loop: get the stack, delete it, wait for the
\* delete; the first call that raises ends the pass in the handler
HeatStack ==
    /\ pc = "heat"
    /\ IF dryrun
       THEN /\ trace' = Log(trace, <<ReportDeletion("AdvancedServices", "HEAT STACK", Cur)>>)
            /\ Advance(deleting_instances)
       ELSE \E n \in 1..Len(HeatOps), r \in Results :
              LET calls == [i \in 1..n |->
                               IF HeatOps[i] = "delete_stack"
                               THEN Did("AdvancedServices", HeatOps[i], Cur,
                                        IF i = n THEN r ELSE OK)
                               ELSE Call("AdvancedServices", HeatOps[i], Cur)]
                  v == IF r = OK THEN "ok" ELSE HeatHandler(r)
              IN  /\ r = OK => n = Len(HeatOps)
                  /\ trace' = Log(trace, calls \o
                        (IF r = OK
                         THEN <<ReportDeletion("AdvancedServices", "HEAT STACK", Cur)>>
                         ELSE VerdictRep("AdvancedServices", "HEAT STACK", Cur, v)))
                  /\ Handled(v, deleting_instances)
    /\ lb_status' = "none"
    /\ polled' = NotPolled
    /\ lb_pending' = NoPending
    /\ UNCHANGED <<config, gone, deleting_instances, wait_retry_count, attempt,
                   router_gw, router_fips>>

\* one pass of the DNS zone loop
DnsZone ==
    /\ pc = "dns"
    /\ IF dryrun
       THEN /\ trace' = Log(trace, <<ReportDeletion("AdvancedServices", "DNS ZONE", Cur)>>)
            /\ Advance(deleting_instances)
       ELSE \E r \in Results :
              LET v == IF r = OK THEN "ok" ELSE DnsHandler(r)
              IN  /\ trace' = Log(trace, <<Did("AdvancedServices", "delete_zone", Cur, r)>> \o
                        (IF r = OK
                         THEN <<ReportDeletion("AdvancedServices", "DNS ZONE", Cur)>>
                         ELSE VerdictRep("AdvancedServices", "DNS ZONE", Cur, v)))
                  /\ Handled(v, deleting_instances)
    /\ lb_status' = "none"
    /\ polled' = NotPolled
    /\ lb_pending' = NoPending
    /\ UNCHANGED <<config, gone, deleting_instances, wait_retry_count, attempt,
                   router_gw, router_fips>>

-----------------------------------------------------------------------------
(* ComputeCleaner.clean                                                    *)

\* a variant that lets every error other than NotFound leave the loop
ComputeHandlerRaises(e) == IF NotFoundSniff(e) THEN "not_found" ELSE "raise"

\* the handlers of ComputeCleaner: NotFound by class name or by "404"
ComputeHandler(e) == IF NotFoundSniff(e) THEN "not_found" ELSE "error"

\* _delete_floating_ips: every exception of delete_ip is reported as an error
InstanceFipHandler(e) == "error"

\* _get_instance_floating_ips: the floating addresses the instance shows
InstanceFips(ins) ==
    SeqOf({f \in DOMAIN fips : fips[f].instance = ins})

\* network.ips(): the floating IPs the backend lists
ListIps == SeqOf(DOMAIN fips \ gone)

\* a variant that leaves the floating IPs of an instance alone
DeleteInstanceFipsNone(addresses, rs) == <<>>

\* _delete_floating_ips(addresses) once the list call has returned: for each
\* address the first listed floating IP that has it is deleted; rs gives the
\* result of each delete_ip
DeleteInstanceFips(addresses, rs) ==
    Flatten([i \in DOMAIN addresses |->
        LET f == addresses[i] IN
        IF f \notin Range(ListIps) THEN <<>>
        ELSE <<Did("Compute", "delete_ip", f, rs[f])>> \o
             (IF rs[f] = OK THEN <<ReportDeletion("Compute", "FLOATING IP", f)>>
              ELSE VerdictRep("Compute", "FLOATING IP", f, InstanceFipHandler(rs[f])))])

Deleted(S, rs) == {f \in S : rs[f] = OK}

\* the except clause of the instance loop
InstanceFailed(ins, calls, e) ==
    LET v == ComputeHandler(e) IN
    /\ trace' = Log(trace, calls \o VerdictRep("Compute", "INSTANCE", ins, v))
    /\ deleting_instances' =
          IF v = "not_found"
          THEN SelectSeq(deleting_instances, LAMBDA x : x # ins)
          ELSE deleting_instances
    /\ Handled(v, deleting_instances')

\* one pass of the instance loop
Instance ==
    /\ pc = "instances"
    /\ LET ins == Cur
           get == <<Call("Compute", "get_server", ins)>>
           addresses == InstanceFips(ins)
       IN
       \E rget \in Results2 :
         IF rget # OK
         THEN InstanceFailed(ins, get, rget) /\ gone' = gone
         ELSE IF dryrun
         THEN /\ trace' = Log(trace, get \o
                   [i \in DOMAIN addresses |->
                       ReportDeletion("Compute", "FLOATING IP", addresses[i])] \o
                   <<ReportDeletion("Compute", "INSTANCE", ins)>>)
              /\ Advance(deleting_instances)
              /\ UNCHANGED <<gone, deleting_instances>>
         ELSE IF addresses = <<>>
         THEN \E rdel \in Results2 :
                LET calls == get \o <<Did("Compute", "delete_server", ins, rdel)>> IN
                /\ gone' = gone
                /\ IF rdel = OK
                   THEN /\ trace' = Log(trace, calls)
                        /\ Advance(deleting_instances)
                        /\ UNCHANGED deleting_instances
                   ELSE InstanceFailed(ins, calls, rdel)
         ELSE \E rlist \in Results2 :
                LET lst == get \o <<Call("Compute", "list_ips", "")>> IN
                IF rlist # OK
                THEN InstanceFailed(ins, lst, rlist) /\ gone' = gone
                ELSE \E rs \in [Range(addresses) -> Results2], rdel \in Results2 :
                       LET calls == lst \o DeleteInstanceFips(addresses, rs) \o
                                    <<Did("Compute", "delete_server", ins, rdel)>>
                       IN
                       /\ gone' = gone \cup Deleted(Range(addresses) \cap Range(ListIps), rs)
                       /\ IF rdel = OK
                          THEN /\ trace' = Log(trace, calls)
                               /\ Advance(deleting_instances)
                               /\ UNCHANGED deleting_instances
                          ELSE InstanceFailed(ins, calls, rdel)
    /\ lb_status' = "none"
    /\ polled' = NotPolled
    /\ lb_pending' = NoPending
    /\ UNCHANGED <<config, wait_retry_count, attempt, router_gw, router_fips>>

\* a variant that gives up an instance on any error of its get_server
InstanceGoneAnyError(e) == TRUE

\* the except clause of the wait loop: the instance is popped on a NotFound
InstanceGone(e) == NotFoundSniff(e)

\* one round of _wait_for_instance_deletion: every instance still waited for
\* is polled once; rs gives the result of each get_server
WaitRound ==
    /\ pc = "wait"
    /\ deleting_instances # <<>> /\ wait_retry_count > 0
    /\ \E rs \in [Range(deleting_instances) -> Results2] :
         LET isGone(x) == rs[x] # OK /\ InstanceGone(rs[x])
             left == SelectSeq(deleting_instances, LAMBDA x : ~isGone(x))
         IN
         /\ trace' = Log(trace, Flatten([i \in DOMAIN deleting_instances |->
                LET x == deleting_instances[i] IN
                <<Call("Compute", "get_server", x)>> \o
                (IF isGone(x) THEN <<ReportDeletion("Compute", "INSTANCE", x)>>
                 ELSE <<>>)]))
         /\ deleting_instances' = left
         /\ polled' = [NotPolled EXCEPT !.errs =
                          {x \in Range(deleting_instances) :
                              rs[x] # OK /\ ~IsResourceNotFound(rs[x])}]
         /\ IF left # <<>> /\ wait_retry_count - 1 > 0
            THEN /\ wait_retry_count' = wait_retry_count - 1
                 /\ Stay("wait", retry_count)
            ELSE /\ wait_retry_count' = DEFAULT_INSTANCE_DELETE_RETRIES
                 /\ Advance(left)
    /\ lb_status' = "none"
    /\ lb_pending' = NoPending
    /\ UNCHANGED <<config, gone, attempt, router_gw, router_fips>>

\* one pass of _clean_flavors / _clean_keypairs / _clean_images
ComputeSimple(name, rtype, op) ==
    /\ pc = name
    /\ IF dryrun
       THEN /\ trace' = Log(trace, <<ReportDeletion("Compute", rtype, Cur)>>)
            /\ Advance(deleting_instances)
       ELSE \E r \in Results2 :
              LET v == IF r = OK THEN "ok" ELSE ComputeHandler(r)
              IN  /\ trace' = Log(trace, <<Did("Compute", op, Cur, r)>> \o
                        (IF r = OK THEN <<ReportDeletion("Compute", rtype, Cur)>>
                         ELSE VerdictRep("Compute", rtype, Cur, v)))
                  /\ Handled(v, deleting_instances)
    /\ lb_status' = "none"
    /\ polled' = NotPolled
    /\ lb_pending' = NoPending
    /\ UNCHANGED <<config, gone, deleting_instances, wait_retry_count, attempt,
                   router_gw, router_fips>>

Flavor == ComputeSimple("flavors", "FLAVOR", "delete_flavor")

Keypair == ComputeSimple("keypairs", "KEYPAIR", "delete_keypair")

Image == ComputeSimple("images", "IMAGE", "delete_image")

-----------------------------------------------------------------------------
(* StorageCleaner.clean                                                    *)

\* a variant that passes over a Conflict without a report
StorageHandlerSilent(e) ==
    IF IsResourceNotFound(e) THEN "not_found"
    ELSE IF e.type = "ConflictException" THEN "retry"
    ELSE "error"

\* except os_exceptions.ResourceNotFound / except Exception
StorageHandler(e) == IF IsResourceNotFound(e) THEN "not_found" ELSE "error"

\* one pass of the volume loop or of the snapshot loop: a get in dry-run
\* mode, a delete otherwise
StorageSimple(name, rtype, getop, delop) ==
    /\ pc = name
    /\ \E r \in Results2 :
         LET v == IF r = OK THEN "ok" ELSE StorageHandler(r)
         IN  /\ trace' = Log(trace,
                   <<IF dryrun THEN Call("Storage", getop, Cur)
                     ELSE Did("Storage", delop, Cur, r)>> \o
                   (IF r = OK THEN <<ReportDeletion("Storage", rtype, Cur)>>
                    ELSE VerdictRep("Storage", rtype, Cur, v)))
             /\ Handled(v, deleting_instances)
    /\ lb_status' = "none"
    /\ polled' = NotPolled
    /\ lb_pending' = NoPending
    /\ UNCHANGED <<config, gone, deleting_instances, wait_retry_count, attempt,
                   router_gw, router_fips>>

Volume == StorageSimple("volumes", "VOLUME", "get_volume", "delete_volume")

Snapshot ==
    StorageSimple("snapshots", "VOLUME SNAPSHOT", "get_snapshot", "delete_snapshot")


-----------------------------------------------------------------------------
(* LoadBalancerCleaner.clean and ResourceMonitor.verify_resource_deleted   *)

LbStatuses == {"ACTIVE", "PENDING_CREATE", "PENDING_UPDATE", "PENDING_DELETE"}

\* a variant that waits for PENDING_UPDATE only
LbPendingUpdateOnly == {"PENDING_UPDATE"}

LbPending == {"PENDING_UPDATE", "PENDING_CREATE", "PENDING_DELETE"}

\* a variant that retries a Conflict whatever is left of the budget
LbHandlerUnbounded(e, rc) ==
    IF IsResourceNotFound(e) THEN "not_found"
    ELSE IF LbConflictSniff(e) THEN "retry"
    ELSE "error"

\* the except clauses of the retry loop; rc is retry_count
LbHandler(e, rc) ==
    IF IsResourceNotFound(e) THEN "not_found"
    ELSE IF LbConflictSniff(e)
         THEN (IF rc - 1 > 0 THEN "retry" ELSE "after_retries")
         ELSE "error"

LbFailed(calls, e) ==
    LET v == LbHandler(e, retry_count) IN
    /\ trace' = Log(trace, calls \o VerdictRep("LoadBalancer", "LOAD BALANCER", Cur, v))
    /\ IF v = "retry" THEN Stay("lb", retry_count - 1)
       ELSE Handled(v, deleting_instances)

\* one iteration of the retry loop of one load balancer
LbAttempt ==
    /\ pc = "lb"
    /\ LET id == Cur
           get == <<Call("LoadBalancer", "get_load_balancer", id)>>
       IN
       IF dryrun
       THEN /\ trace' = Log(trace, <<ReportDeletion("LoadBalancer", "LOAD BALANCER", id)>>)
            /\ lb_status' = "none"
            /\ lb_pending' = NoPending
            /\ Advance(deleting_instances)
       ELSE \E rget \in Results3 :
            \E st \in (IF rget = OK THEN LbStatuses ELSE {"none"}) :
            /\ lb_status' = st
            /\ lb_pending' =
                  [id |-> id,
                   n  |-> (IF retry_count = DEFAULT_RETRY_COUNT THEN 0
                           ELSE lb_pending.n) +
                          (IF rget = OK /\ st \in LbPending THEN 1 ELSE 0)]
            /\
              IF rget = OK /\ st \in LbPending
              THEN IF retry_count - 1 > 0
                   THEN /\ trace' = Log(trace, get)
                        /\ Stay("lb", retry_count - 1)
                   ELSE /\ trace' = Log(trace, get \o
                             VerdictRep("LoadBalancer", "LOAD BALANCER", id, "after_retries"))
                        /\ Advance(deleting_instances)
              ELSE IF rget = OK
              THEN \E rdel \in Results3 :
                     LET calls == get \o <<Did("LoadBalancer", "delete_load_balancer", id, rdel)>>
                     IN
                     IF rdel = OK
                     THEN /\ trace' = Log(trace, calls \o
                               <<ReportDeletion("LoadBalancer", "LOAD BALANCER", id)>>)
                          /\ Stay("lb_verify", retry_count)
                     ELSE LbFailed(calls, rdel)
              ELSE LbFailed(get, rget)
    /\ polled' = NotPolled
    /\ UNCHANGED <<config, gone, deleting_instances, wait_retry_count, attempt,
                   router_gw, router_fips>>

\* a variant that takes only a ResourceNotFound as the end of the resource
VerifyReturnNotFoundOnly(r) == r # OK /\ IsResourceNotFound(r)

\* verify_resource_deleted returns True after a check with result r: either
\* except clause
VerifyReturn(r) == r # OK

\* one existence check of verify_resource_deleted (the monitor is not in
\* dry-run mode here: the cleaner calls it after a delete only)
LbVerify ==
    /\ pc = "lb_verify"
    /\ \E r \in Results2 :
         /\ trace' = Log(trace, <<Call("LoadBalancer", "get_load_balancer", Cur)>>)
         /\ IF ~VerifyReturn(r) /\ attempt + 1 < VERIFY_MAX_ATTEMPTS
            THEN /\ attempt' = attempt + 1
                 /\ polled' = NotPolled
                 /\ Stay("lb_verify", retry_count)
            ELSE /\ attempt' = 0
                 /\ polled' =
                       [ret |-> IF VerifyReturn(r) THEN "true" ELSE "false",
                        checks |-> attempt + 1,
                        found |-> attempt + (IF r = OK THEN 1 ELSE 0),
                        last |-> Class(r), errs |-> {}]
                 /\ Advance(deleting_instances)
    /\ lb_status' = "none"
    /\ lb_pending' = NoPending
    /\ UNCHANGED <<config, gone, deleting_instances, wait_retry_count,
                   router_gw, router_fips>>


-----------------------------------------------------------------------------
(* NetworkCleaner.clean                                                    *)

\* the handlers of the floating IP and port steps
FipHandler(e) == IF NotFoundSniff(e) THEN "not_found" ELSE "error"

PortHandler(e) == IF NotFoundSniff(e) THEN "not_found" ELSE "error"

\* a variant that does not look at dryrun
DeleteFloatingIpAlways(f, r) ==
    <<Did("Network", "delete_ip", f, r)>> \o
    (IF r = OK THEN <<ReportDeletion("Network", "FLOATING IP", f)>>
     ELSE VerdictRep("Network", "FLOATING IP", f, FipHandler(r)))

\* _delete_floating_ip(fip), r the result of its delete_ip
DeleteFloatingIp(f, r) ==
    IF dryrun THEN <<ReportDeletion("Network", "FLOATING IP", f)>>
    ELSE <<Did("Network", "delete_ip", f, r)>> \o
         (IF r = OK THEN <<ReportDeletion("Network", "FLOATING IP", f)>>
          ELSE VerdictRep("Network", "FLOATING IP", f, FipHandler(r)))

\* 1. one pass of the loop over the discovered floating IPs
NetFip ==
    /\ pc = "net_fips"
    /\ LET id == Cur
           get == <<Call("Network", "get_ip", id)>>
       IN
       \E rget \in Results2 :
         IF rget # OK
         THEN LET v == FipHandler(rget) IN
              /\ trace' = Log(trace, get \o VerdictRep("Network", "FLOATING IP", id, v))
              /\ gone' = gone
              /\ Handled(v, deleting_instances)
         ELSE \E r \in Results2 :
              /\ trace' = Log(trace, get \o DeleteFloatingIp(id, r))
              /\ gone' = IF ~dryrun /\ r = OK THEN gone \cup {id} ELSE gone
              /\ Advance(deleting_instances)
    /\ lb_status' = "none"
    /\ polled' = NotPolled
    /\ lb_pending' = NoPending
    /\ UNCHANGED <<config, deleting_instances, wait_retry_count, attempt,
                   router_gw, router_fips>>

\* the listed floating IPs the sweep deletes: not in the inventory, and in
\* M, the floating IPs whose address, id or description the filter matches
SweptFips(M) ==
    SelectSeq(ListIps, LAMBDA f :
        f \notin Range(resources["floating_ips"]) /\ f \in M)

\* 2. the sweep over all floating IPs; a failure of the list call is printed
FipSweep ==
    /\ pc = "fip_sweep"
    /\ \E listed \in BOOLEAN :
         IF ~listed
         THEN /\ trace' = Log(trace, <<Call("Network", "list_ips", "")>>)
              /\ gone' = gone
         ELSE \E M \in SUBSET Range(ListIps) :
              \E rs \in [Range(SweptFips(M)) -> Results2] :
              /\ trace' = Log(trace, <<Call("Network", "list_ips", "")>> \o
                    Flatten([i \in DOMAIN SweptFips(M) |->
                        DeleteFloatingIp(SweptFips(M)[i], rs[SweptFips(M)[i]])]))
              /\ gone' = IF dryrun THEN gone
                         ELSE gone \cup Deleted(Range(SweptFips(M)), rs)
    /\ Advance(deleting_instances)
    /\ lb_status' = "none"
    /\ polled' = NotPolled
    /\ lb_pending' = NoPending
    /\ UNCHANGED <<config, deleting_instances, wait_retry_count, attempt,
                   router_gw, router_fips>>

\* network.ports(): the ports the backend lists
ListPorts == SeqOf(DOMAIN ports \ gone)

\* a variant that treats the ports of routers only as system ports
SweepRouterOwners == {"network:router_interface", "network:router_gateway"}

SweepSystemOwners ==
    {"network:router_interface", "network:dhcp", "network:router_gateway"}

\* the listed ports the sweep deletes: in M, the ports whose name or id the
\* filter matches, and the device owner is not a system one
SweptPorts(M) ==
    SelectSeq(ListPorts, LAMBDA p :
        p \in M /\ ports[p].device_owner \notin SweepSystemOwners)

\* 3. the sweep over all ports; a failure of the list call is printed
PortSweep ==
    /\ pc = "port_sweep"
    /\ \E listed \in BOOLEAN :
         IF ~listed
         THEN /\ trace' = Log(trace, <<Call("Network", "list_ports", "")>>)
              /\ gone' = gone
         ELSE \E M \in SUBSET Range(ListPorts) :
              \E rs \in [Range(SweptPorts(M)) -> Results2] :
              /\ trace' = Log(trace, <<Call("Network", "list_ports", "")>> \o
                    Flatten([i \in DOMAIN SweptPorts(M) |->
                        LET p == SweptPorts(M)[i] IN
                        IF dryrun THEN <<ReportDeletion("Network", "PORT", p)>>
                        ELSE <<Did("Network", "delete_port", p, rs[p])>> \o
                             (IF rs[p] = OK
                              THEN <<ReportDeletion("Network", "PORT", p)>>
                              ELSE VerdictRep("Network", "PORT", p, PortHandler(rs[p])))]))
              /\ gone' = IF dryrun THEN gone
                         ELSE gone \cup Deleted(Range(SweptPorts(M)), rs)
    /\ Advance(deleting_instances)
    /\ lb_status' = "none"
    /\ polled' = NotPolled
    /\ lb_pending' = NoPending
    /\ UNCHANGED <<config, deleting_instances, wait_retry_count, attempt,
                   router_gw, router_fips>>

\* the except clauses of the router loop
RouterHandler(e) ==
    IF NotFoundSniff(e) THEN "not_found"
    ELSE IF RouterConflictSniff(e) THEN "conflict"
    ELSE "error"

RouterFailed(calls, e) ==
    LET v == RouterHandler(e) IN
    /\ trace' = Log(trace, calls \o VerdictRep("Network", "ROUTER", Cur, v))
    /\ router_gw' = FALSE
    /\ Handled(v, deleting_instances)

\* network.ports(device_id=id)
RouterPorts(id) == SeqOf({p \in DOMAIN ports \ gone : ports[p].device_id = id})

\* the router's interfaces: its ports that have fixed IPs
RouterInterfaces(id) == SelectSeq(RouterPorts(id), LAMBDA p : ports[p].fixed_ips)

\* 4. a pass of the router loop, up to the fetch of the router; the whole
\* pass in dry-run mode
RouterGet ==
    /\ pc = "routers"
    /\ LET id == Cur
           get == <<Call("Network", "get_router", id)>>
       IN
       \E rget \in Results :
         IF rget # OK THEN RouterFailed(get, rget)
         ELSE IF dryrun
         THEN \E rl \in Results :
                LET calls == get \o <<ReportDeletion("Network", "Router Gateway", id),
                                      Call("Network", "list_ports", id)>>
                IN
                IF rl # OK THEN RouterFailed(calls, rl)
                ELSE /\ trace' = Log(trace, calls \o
                          [i \in DOMAIN RouterInterfaces(id) |->
                              ReportDeletion("Network", "Router Interface",
                                             RouterInterfaces(id)[i])] \o
                          <<ReportDeletion("Network", "ROUTER", id)>>)
                     /\ router_gw' = FALSE
                     /\ Advance(deleting_instances)
         ELSE \E gw \in BOOLEAN :
                /\ trace' = Log(trace, get)
                /\ router_gw' = gw
                /\ Stay("router_fips", retry_count)
    /\ lb_status' = "none"
    /\ polled' = NotPolled
    /\ lb_pending' = NoPending
    /\ UNCHANGED <<config, gone, deleting_instances, wait_retry_count, attempt,
                   router_fips>>

\* the listed floating IPs whose port the router loop looks up
RouterFipCandidates(id) ==
    SelectSeq(ListIps, LAMBDA f :
        fips[f].router_id = id \/ fips[f].port_device # "none")

\* the position after the floating IPs of the router are dealt with
AfterRouterFips == IF router_gw THEN "router_gw" ELSE "router_ifs"

\* the floating IPs of the router: list them all, keep those bound to a port
\* of the router, delete them; got are the floating IPs whose get_port
\* returned (a failure is passed over) and rd gives the results of delete_ip
\* (a failure is printed).  When the list call raises, router_fips keeps the
\* value of the previous pass, or is unbound in the first pass.
RouterFips ==
    /\ pc = "router_fips"
    /\ LET id == Cur
           lst == <<Call("Network", "list_ips", "")>>
           cands == RouterFipCandidates(id)
       IN
       \E listed \in BOOLEAN :
         IF ~listed
         THEN /\ router_fips' = router_fips
              /\ gone' = gone
              /\ IF router_fips.bound
                 THEN /\ trace' = Log(trace, lst)
                      /\ router_gw' = router_gw
                      /\ Stay(AfterRouterFips, retry_count)
                 ELSE RouterFailed(lst, UnboundLocalError)
         ELSE \E got \in SUBSET Range(cands) :
                LET found == SelectSeq(cands, LAMBDA f :
                                 /\ f \in got
                                 /\ fips[f].port_device = id)
                IN
                \E rd \in [Range(found) -> Results2] :
                /\ trace' = Log(trace, lst \o
                      [i \in DOMAIN cands |-> Call("Network", "get_port", cands[i])] \o
                      Flatten([i \in DOMAIN found |->
                          <<Did("Network", "delete_ip", found[i], rd[found[i]])>> \o
                          (IF rd[found[i]] = OK
                           THEN <<ReportDeletion("Network", "FLOATING IP", found[i])>>
                           ELSE <<>>)]))
                /\ router_fips' = [bound |-> TRUE, val |-> found]
                /\ gone' = gone \cup Deleted(Range(found), rd)
                /\ router_gw' = router_gw
                /\ Stay(AfterRouterFips, retry_count)
    /\ lb_status' = "none"
    /\ polled' = NotPolled
    /\ lb_pending' = NoPending
    /\ UNCHANGED <<config, deleting_instances, wait_retry_count, attempt>>

\* the external gateway of the router is cleared; a failure is printed only
RouterGateway ==
    /\ pc = "router_gw"
    /\ \E r \in Results :
         trace' = Log(trace, <<Call("Network", "update_router", Cur)>> \o
                  (IF r = OK THEN <<ReportDeletion("Network", "Router Gateway", Cur)>>
                   ELSE <<>>))
    /\ Stay("router_ifs", retry_count)
    /\ lb_status' = "none"
    /\ polled' = NotPolled
    /\ lb_pending' = NoPending
    /\ UNCHANGED <<config, gone, deleting_instances, wait_retry_count, attempt,
                   router_gw, router_fips>>

\* the interfaces are removed (failures ignored) and the router is deleted
RouterDelete ==
    /\ pc = "router_ifs"
    /\ LET id == Cur
           lst == <<Call("Network", "list_ports", id)>>
           ifs == RouterInterfaces(id)
       IN
       \E rl \in Results :
         IF rl # OK THEN RouterFailed(lst, rl)
         ELSE \E rd \in Results :
                LET calls == lst \o
                        [i \in DOMAIN ifs |->
                            Call("Network", "remove_interface_from_router", ifs[i])] \o
                        <<Did("Network", "delete_router", id, rd)>>
                IN
                IF rd # OK THEN RouterFailed(calls, rd)
                ELSE /\ trace' = Log(trace, calls \o
                          <<ReportDeletion("Network", "ROUTER", id)>>)
                     /\ router_gw' = FALSE
                     /\ Advance(deleting_instances)
    /\ lb_status' = "none"
    /\ polled' = NotPolled
    /\ lb_pending' = NoPending
    /\ UNCHANGED <<config, gone, deleting_instances, wait_retry_count, attempt,
                   router_fips>>

NetworkSystemOwners ==
    {"network:dhcp", "network:router_interface", "network:router_gateway",
     "network:floatingip"}

\* the ports still on the network that the network loop deletes
Stragglers(id) ==
    SelectSeq(SeqOf({p \in DOMAIN ports \ gone : ports[p].network_id = id}),
              LAMBDA p : ports[p].device_owner \notin NetworkSystemOwners)

\* a variant that retries an in-use network whatever is left of the budget
NetworkHandlerUnbounded(e, rc) ==
    IF NotFoundSniff(e) THEN "not_found"
    ELSE IF NetworkInUseSniff(e) THEN "retry"
    ELSE "error"

\* the except clauses of the network retry loop; rc is retry_count
\* the variant that tests Conflict before NotFound
NetworkHandlerConflictFirst(e, rc) ==
    IF NetworkInUseSniff(e)
    THEN (IF rc - 1 > 0 THEN "retry" ELSE "after_retries")
    ELSE IF NotFoundSniff(e) THEN "not_found" ELSE "error"

NetworkHandler(e, rc) ==
    IF NotFoundSniff(e) THEN "not_found"
    ELSE IF NetworkInUseSniff(e)
         THEN (IF rc - 1 > 0 THEN "retry" ELSE "after_retries")
         ELSE "error"

NetworkFailed(calls, e) ==
    LET v == NetworkHandler(e, retry_count) IN
    /\ trace' = Log(trace, calls \o VerdictRep("Network", "NETWORK", Cur, v))
    /\ IF v = "retry" THEN Stay("networks", retry_count - 1)
       ELSE Handled(v, deleting_instances)

\* 5. one iteration of the retry loop of one network: the ports still on the
\* network are listed and the stragglers deleted (failures are printed:
\* deleted are the ports whose delete_port returned), then the network is
\* deleted
NetworkAttempt ==
    /\ pc = "networks"
    /\ LET id == Cur
           lst == <<Call("Network", "list_ports", id)>>
           todo == Stragglers(id)
       IN
       IF dryrun
       THEN \E r \in Results :
              LET get == <<Call("Network", "get_network", id)>> IN
              /\ gone' = gone
              /\ IF r # OK THEN NetworkFailed(get, r)
                 ELSE /\ trace' = Log(trace, get \o
                           <<ReportDeletion("Network", "NETWORK", id)>>)
                      /\ Advance(deleting_instances)
       ELSE \E listed \in BOOLEAN, rd \in Results :
              \E deleted \in SUBSET (IF listed THEN Range(todo) ELSE {}) :
                LET calls == lst \o
                        [i \in DOMAIN (IF listed THEN todo ELSE <<>>) |->
                            Call("Network", "delete_port", todo[i])] \o
                        <<Did("Network", "delete_network", id, rd)>>
                IN
                /\ gone' = gone \cup deleted
                /\ IF rd # OK THEN NetworkFailed(calls, rd)
                   ELSE /\ trace' = Log(trace, calls \o
                             <<ReportDeletion("Network", "NETWORK", id)>>)
                        /\ Advance(deleting_instances)
    /\ lb_status' = "none"
    /\ polled' = NotPolled
    /\ lb_pending' = NoPending
    /\ UNCHANGED <<config, deleting_instances, wait_retry_count, attempt,
                   router_gw, router_fips>>

\* a variant that gives up on the first Conflict
SecGroupHandlerNoRetry(e, rc) ==
    IF NotFoundSniff(e) THEN "not_found"
    ELSE IF SecGroupConflictSniff(e) THEN "after_retries"
    ELSE "error"

\* the except clauses of the security group retry loop; rc is retry_count
SecGroupHandler(e, rc) ==
    IF NotFoundSniff(e) THEN "not_found"
    ELSE IF SecGroupConflictSniff(e)
         THEN (IF rc - 1 > 0 THEN "retry" ELSE "after_retries")
         ELSE "error"

\* 6. one iteration of the retry loop of one security group
SecGroupAttempt ==
    /\ pc = "secgroups"
    /\ \E r \in Results :
         LET call == <<IF dryrun THEN Call("Network", "get_security_group", Cur)
                       ELSE Did("Network", "delete_security_group", Cur, r)>>
             v == IF r = OK THEN "ok" ELSE SecGroupHandler(r, retry_count)
         IN
         /\ trace' = Log(trace, call \o
               (IF r = OK THEN <<ReportDeletion("Network", "SECURITY GROUP", Cur)>>
                ELSE VerdictRep("Network", "SECURITY GROUP", Cur, v)))
         /\ IF v = "retry" THEN Stay("secgroups", retry_count - 1)
            ELSE Handled(v, deleting_instances)
    /\ lb_status' = "none"
    /\ polled' = NotPolled
    /\ lb_pending' = NoPending
    /\ UNCHANGED <<config, gone, deleting_instances, wait_retry_count, attempt,
                   router_gw, router_fips>>

-----------------------------------------------------------------------------

Next ==
    \/ HeatStack
    \/ DnsZone
    \/ Instance
    \/ WaitRound
    \/ Flavor
    \/ Keypair
    \/ Image
    \/ Volume
    \/ Snapshot
    \/ LbAttempt
    \/ LbVerify
    \/ NetFip
    \/ FipSweep
    \/ PortSweep
    \/ RouterGet
    \/ RouterFips
    \/ RouterGateway
    \/ RouterDelete
    \/ NetworkAttempt
    \/ SecGroupAttempt

Spec == Init /\ [][Next]_vars

\* main once cleaners.clean() is over: the summary with count is printed and
\* main returns 0; an exception that left clean() ends the process instead
Summary ==
    /\ main_pc = "clean"
    /\ pc \in {"done", "aborted"}
    /\ IF escaped
       THEN effects' = effects /\ Exit(1)
       ELSE effects' = Append(effects, "summary") /\ Exit(0)
    /\ UNCHANGED <<opts, count, cleaner_vars, construct_vars, loader_vars,
                   discovery_vars>>

\* cleaners.clean() followed by the end of main
RunNext == Next \/ Summary

RunSpec == Init /\ [][RunNext]_vars

\* main is sequential: it always takes its next step
FairRunSpec == RunSpec /\ WF_vars(RunNext)

-----------------------------------------------------------------------------
(* Reading the trace.                                                      *)

Inventory == UNION {Range(resources[k]) : k \in Kinds}

DeleteOps == {op \in MutatingOps :
                 op \notin {"update_router", "remove_interface_from_router"}}

IsDelete(e) == e.ev = "call" /\ e.what \in DeleteOps

\* the positions of the delete calls issued for id
DeleteCalls(id) == {i \in DOMAIN trace : IsDelete(trace[i]) /\ trace[i].id = id}

\* the positions of the outcome reports of the resource id (the reports of a
\* router's gateway and interfaces are not outcomes of a resource)
Reports(id) ==
    {i \in DOMAIN trace :
        /\ trace[i].ev = "report"
        /\ trace[i].id = id
        /\ trace[i].what \notin {"Router Gateway", "Router Interface"}}

\* the event at position i + 1 is a report with outcome out for the resource
\* of the event at position i
FollowedBy(i, out) ==
    /\ i < Len(trace)
    /\ trace[i + 1].ev = "report"
    /\ trace[i + 1].id = trace[i].id
    /\ trace[i + 1].res = out

Rank(cat) ==
    CASE cat = "AdvancedServices" -> 1
      [] cat = "Compute"          -> 2
      [] cat = "Storage"          -> 3
      [] cat = "LoadBalancer"     -> 4
      [] OTHER                    -> 5

SingleShotKinds == {"heat_stacks", "dns_zones", "instances", "flavors", "keypairs",
                    "images", "volumes", "volume_snapshots", "routers"}

RetriedKinds == {"networks", "sec_groups", "loadbalancers"}

-----------------------------------------------------------------------------
(* C1: the categories run in the order AdvancedServices, Compute, Storage, *)
(* LoadBalancer, Network: in the order of the run, no call or report of a  *)
(* category comes after one of a later category.                           *)
C1_CategoriesInOrder ==
    \A i \in 1..(Len(trace) - 1) : Rank(trace[i].cat) <= Rank(trace[i + 1].cat)

\* a finished run in which Compute and Network both made remote calls
C1_Witness ==
    /\ pc = "done"
    /\ \E i, j \in DOMAIN trace :
         /\ trace[i].ev = "call" /\ trace[i].cat = "Compute"
         /\ trace[j].ev = "call" /\ trace[j].cat = "Network"

(* C2: in dry-run mode no mutating remote call (a delete, update_router,   *)
(* remove_interface_from_router) is ever issued.                           *)
C2_DryRunNeverMutates ==
    dryrun => \A i \in DOMAIN trace : trace[i].what \notin MutatingOps

\* a finished dry run that read the backend and reported a would-be deletion
C2_Witness ==
    /\ dryrun /\ pc = "done"
    /\ \E i, j \in DOMAIN trace :
         /\ trace[i].ev = "call"
         /\ trace[j].ev = "report" /\ trace[j].res = "would_delete"

(* C3, as stated: in a non-dry run a delete call is issued at most once    *)
(* for every resource id.                                                  *)
C3_DeleteAtMostOnce ==
    ~dryrun => \A id \in Range(IdOrder) : Cardinality(DeleteCalls(id)) <= 1

(* C3, amended: an inventory entry of a kind without a retry loop gets at  *)
(* most one delete call; a network, security group or load balancer gets   *)
(* at most DEFAULT_RETRY_COUNT, each but the last answered by a Conflict   *)
(* (409 / in use).                                                         *)
C3_DeletesBounded ==
    \A id \in Inventory :
      LET d == DeleteCalls(id) IN
      /\ KindOf(id) \in SingleShotKinds => Cardinality(d) <= 1
      /\ KindOf(id) \in RetriedKinds =>
           /\ Cardinality(d) <= DEFAULT_RETRY_COUNT
           /\ \A i \in d : (\E k \in d : k > i) =>
                 trace[i].res \in {"Conflict", "Conflict404"}

\* a network whose delete was issued DEFAULT_RETRY_COUNT times
C3_Witness ==
    \E id \in Range(resources["networks"]) :
       Cardinality(DeleteCalls(id)) = DEFAULT_RETRY_COUNT

(* C4: a NotFound raised by a delete call is always followed by a          *)
(* not-found report for the resource, never by an error report.            *)
C4_NotFoundIsAlreadyGone ==
    \A i \in DOMAIN trace :
       (IsDelete(trace[i]) /\ trace[i].res = "NotFound") => FollowedBy(i, "not_found")

(* C5: no exception leaves OpenStackCleaners.clean(), and when the run is  *)
(* over every inventory resource has been processed, whatever the remote   *)
(* calls raised.                                                           *)
C5_Isolation ==
    /\ ~escaped
    /\ pc # "aborted"
    /\ pc = "done" =>
         \A id \in Inventory : \E i \in DOMAIN trace : trace[i].id = id

\* a finished run with an error report for one resource and a later report
\* for another
C5_Witness ==
    /\ pc = "done"
    /\ \E i, j \in DOMAIN trace :
         /\ i < j
         /\ trace[i].ev = "report" /\ trace[i].res = "error"
         /\ trace[j].ev = "report" /\ trace[j].id # trace[i].id

(* C6: no delete_security_group call is issued before a mutating call of   *)
(* the Compute category.                                                   *)
C6_SecGroupsAfterCompute ==
    resources["sec_groups"] # <<>> =>
    \A j \in DOMAIN trace :
       (trace[j].cat = "Compute" /\ trace[j].what \in MutatingOps) =>
          \A i \in 1..j : trace[i].what # "delete_security_group"

\* a run that deleted in the Compute category and then a security group
C6_Witness ==
    \E i, j \in DOMAIN trace :
       /\ trace[i].cat = "Compute" /\ trace[i].what \in MutatingOps
       /\ trace[j].what = "delete_security_group"

(* C7: in a non-dry run, when delete_router is issued for a router, a      *)
(* delete has been issued before for every floating IP whose router_id is  *)
(* that router.                                                            *)
C7_RouterFipsDeletedFirst ==
    ~dryrun =>
      \A j \in DOMAIN trace :
         trace[j].what = "delete_router" =>
            \A f \in DOMAIN fips :
               fips[f].router_id = trace[j].id =>
                  \E i \in 1..j : trace[i].what = "delete_ip" /\ trace[i].id = f

(* C8: in a non-dry run, a security group whose delete raised a Conflict   *)
(* SECGROUP_RETRY_COUNT times has exactly one report, an error saying      *)
(* 'after retries', and that error is reported only after                  *)
(* SECGROUP_RETRY_COUNT delete attempts; a security group whose delete     *)
(* returned has exactly one report, a successful deletion.                 *)
C8_SecGroupRetry ==
    ~dryrun =>
    \A id \in Range(resources["sec_groups"]) :
      LET d == DeleteCalls(id)
          r == Reports(id)
      IN
      /\ Cardinality({i \in d : trace[i].res = "Conflict"}) = SECGROUP_RETRY_COUNT =>
           /\ Cardinality(d) = SECGROUP_RETRY_COUNT
           /\ Cardinality(r) = 1
           /\ \A k \in r : trace[k].res = "error" /\ trace[k].note = "after retries"
      /\ (\E k \in r : trace[k].note = "after retries") =>
           Cardinality(d) = SECGROUP_RETRY_COUNT
      /\ (\E i \in d : trace[i].res = "ok") =>
           /\ Cardinality(r) = 1
           /\ \A k \in r : trace[k].res = "deleted"

\* a security group deleted at the last attempt, after two Conflicts
C8_Witness ==
    \E id \in Range(resources["sec_groups"]) :
       /\ Cardinality(DeleteCalls(id)) = SECGROUP_RETRY_COUNT
       /\ Cardinality({i \in DeleteCalls(id) : trace[i].res = "Conflict"}) =
             SECGROUP_RETRY_COUNT - 1
       /\ \E k \in Reports(id) : trace[k].res = "deleted"

C10_ExactlyOneOutcome ==
    pc = "done" => \A id \in Inventory : Cardinality(Reports(id)) = 1

-----------------------------------------------------------------------------
(* C11: every run terminates.  Measure is a natural number that every step *)
(* of the run decreases: the loops left to run, the items left in the      *)
(* current loop, and what is left of the budget of the retry or poll loop  *)
(* the run is in.                                                          *)
ItemsLeft ==
    IF step > Len(Program) \/ Items(Program[step]) = <<>> THEN 0
    ELSE Len(Items(Program[step])) - idx

BudgetLeft ==
    CASE pc = "wait"        -> wait_retry_count
      [] pc = "lb"          -> VERIFY_MAX_ATTEMPTS + 1 + retry_count
      [] pc = "lb_verify"   -> VERIFY_MAX_ATTEMPTS - attempt
      [] pc = "routers"     -> 4
      [] pc = "router_fips" -> 3
      [] pc = "router_gw"   -> 2
      [] pc = "router_ifs"  -> 1
      [] pc \in {"networks", "secgroups"} -> retry_count
      [] OTHER              -> 1

Measure ==
    (Len(Program) + 1 - step) * (64 * (Len(IdOrder) + 1)) + ItemsLeft * 64 + BudgetLeft

\* the program is sequential and, as every remote call returns or raises,
\* it always takes its next step
FairSpec == Spec /\ WF_vars(Next)

C11_Terminates ==
    /\ [](Measure >= 0)
    /\ [][Measure' < Measure]_vars
    /\ <>(pc = "done")

\* a finished non-dry run with an instance whose delete was accepted and that
\* never disappeared: the wait loop gave up
C11_Witness ==
    /\ ~dryrun /\ pc = "done"
    /\ \E id \in Range(deleting_instances) :
          \E i \in DeleteCalls(id) : trace[i].res = "ok"

-----------------------------------------------------------------------------
UnprobedKinds == {"heat_stacks", "dns_zones", "flavors", "keypairs", "images",
                  "loadbalancers"}

\* the positions of the reads made for id
Gets(id) == {i \in DOMAIN trace : IsRead(trace[i]) /\ trace[i].id = id}

-----------------------------------------------------------------------------
\* the place of a position of the run among the steps of the Network cleaner
NetRank(p) ==
    CASE p = "net_fips"   -> 1
      [] p = "fip_sweep"  -> 2
      [] p = "port_sweep" -> 3
      [] p \in {"routers", "router_fips", "router_gw", "router_ifs"} -> 4
      [] p = "networks"   -> 5
      [] p = "secgroups"  -> 6
      [] p = "done"       -> 7
      [] OTHER            -> 0

\* the delete calls a step of the Network cleaner issues
NetDeletes(p) ==
    CASE NetRank(p) \in {1, 2} -> {"delete_ip"}
      [] NetRank(p) = 3        -> {"delete_port"}
      [] NetRank(p) = 4        -> {"delete_ip", "delete_router"}
      [] NetRank(p) = 5        -> {"delete_port", "delete_network"}
      [] NetRank(p) = 6        -> {"delete_security_group"}
      [] OTHER                 -> {}

IsNetDelete(e) == IsDelete(e) /\ e.cat = "Network"

\* no Network delete other than a security-group delete comes after a
\* security-group delete
SecGroupDeletesLast ==
    \A i, j \in DOMAIN trace :
        (i < j /\ trace[i].what = "delete_security_group" /\ IsNetDelete(trace[j]))
            => trace[j].what = "delete_security_group"

(* C18: in a non-dry run the Network cleaner goes through its steps in the  *)
(* order discovered floating IPs, floating-IP sweep, port sweep, routers,   *)
(* networks, security groups and never back; the Network delete calls a     *)
(* step of the run adds are those of the step the run is in; and no         *)
(* floating-IP, port, router or network delete follows a security-group     *)
(* delete.                                                                  *)
C18_NetworkStepOrder ==
    [][ ~dryrun =>
          /\ NetRank(pc') >= NetRank(pc)
          /\ \A i \in (Len(trace) + 1)..Len(trace') :
                IsNetDelete(trace'[i]) => trace'[i].what \in NetDeletes(pc)
          /\ SecGroupDeletesLast' ]_vars

\* a network delete followed by a security-group delete
C18_Witness ==
    /\ ~dryrun
    /\ \E i, j \in DOMAIN trace :
          /\ i < j
          /\ trace[i].what = "delete_network"
          /\ trace[j].what = "delete_security_group"

-----------------------------------------------------------------------------
(* C19: in a non-dry run every delete_server call for an instance comes    *)
(* after a delete call for each floating IP attached to that instance, and *)
(* every delete of a floating IP of an instance, failed or not, is         *)
(* followed by the delete_server call for that instance.                   *)
C19_InstanceFipsFirst ==
    (~dryrun /\ resources["instances"] # <<>>) =>
        /\ \A j \in DOMAIN trace :
              trace[j].what = "delete_server" =>
                  \A f \in DOMAIN fips :
                      fips[f].instance = trace[j].id =>
                          \E i \in DeleteCalls(f) :
                              i < j /\ trace[i].cat = "Compute"
        /\ \A i \in DOMAIN trace :
              (trace[i].what = "delete_ip" /\ trace[i].cat = "Compute") =>
                  \E j \in DeleteCalls(fips[trace[i].id].instance) :
                      i < j /\ trace[j].what = "delete_server"

\* the delete of an instance's floating IP failed and delete_server was
\* issued all the same
C19_Witness ==
    /\ ~dryrun
    /\ \E i, j \in DOMAIN trace :
          /\ i < j
          /\ trace[i].what = "delete_ip" /\ trace[i].cat = "Compute"
          /\ trace[i].res # "ok"
          /\ trace[j].what = "delete_server"
          /\ trace[j].id = fips[trace[i].id].instance

-----------------------------------------------------------------------------
\* every instance whose delete_server call did not raise NotFound is still
\* waited for, or was reported deleted by the wait loop after a get_server
\* raised NotFound
RequestedAreTracked ==
    \A j \in DOMAIN trace :
        (trace[j].what = "delete_server" /\ trace[j].res # "NotFound") =>
            \/ trace[j].id \in Range(deleting_instances)
            \/ \E k \in Reports(trace[j].id) :
                  /\ j < k
                  /\ trace[k].res = "deleted"
                  /\ \E g \in Gets(trace[j].id) : j < g /\ g < k

(* C20: in a non-dry run, while the run is in the instance loop or in the  *)
(* wait loop it issues no delete other than delete_ip and delete_server;   *)
(* it leaves the instance loop for a later step only with no instance left *)
(* to wait for, and it leaves the wait loop only when no instance is left  *)
(* to wait for or in the last round of the budget; and an instance whose   *)
(* delete was requested (a delete_server call that did not itself raise    *)
(* NotFound) is waited for until a get_server raised NotFound.             *)
C20_WaitBeforeLaterDeletes ==
    [][ ~dryrun =>
          /\ pc \in {"instances", "wait"} =>
                \A i \in (Len(trace) + 1)..Len(trace') :
                    IsDelete(trace'[i]) =>
                        /\ trace'[i].what \in {"delete_ip", "delete_server"}
                        /\ trace'[i].cat = "Compute"
          /\ (pc = "instances" /\ pc' \notin {"instances", "wait"}) =>
                deleting_instances' = <<>>
          /\ (pc = "wait" /\ pc' # "wait") =>
                \/ deleting_instances' = <<>>
                \/ wait_retry_count = 1
          /\ RequestedAreTracked' ]_vars

\* the wait loop gave up on an instance and a later delete was issued
C20_Witness ==
    /\ ~dryrun
    /\ \E i, j \in DOMAIN trace :
          /\ i < j
          /\ trace[i].what = "delete_server" /\ trace[i].res = "ok"
          /\ trace[i].id \in Range(deleting_instances)
          /\ IsDelete(trace[j])
          /\ trace[j].what \notin {"delete_ip", "delete_server"}

-----------------------------------------------------------------------------
\* the filter pattern matches the name or the description of res
NameOrDescriptionMatches(res) == Search(res.name) \/ Search(res.description)

(* C12 as stated: when build_resource_dict has gone through the list, a    *)
(* resource is in the dict if and only if the filter pattern matches its   *)
(* name or its description, an empty or absent name included.              *)
C12_RetainedIffMatch ==
    res_i > Len(res_list) =>
        \A k \in DOMAIN res_list :
            res_list[k].id \in DOMAIN built <=>
                \E m \in DOMAIN res_list :
                    /\ res_list[m].id = res_list[k].id
                    /\ NameOrDescriptionMatches(res_list[m])

\* the list has been gone through and a resource with an empty name and a
\* matching description was left out
C12_Witness ==
    /\ res_i > Len(res_list)
    /\ \E k \in DOMAIN res_list :
          /\ res_list[k].has_name /\ res_list[k].name = <<>>
          /\ Search(res_list[k].description)
          /\ res_list[k].id \notin DOMAIN built

-----------------------------------------------------------------------------
\* the dict {restype: {resid: resname}}
OneEntry(restype, resid, resname) ==
    Put(EmptyDict, restype, Put(EmptyDict, resid, resname))

\* the file has the single line l and has been loaded
Loaded(l) == content = <<l>> /\ log_state = "returned"

(* C13 as stated: loading the file whose only line is keypairs||kp1 yields *)
(* {keypairs: {"0": "kp1"}}.                                               *)
C13_SecondFieldIsId ==
    Loaded(<<"keypairs", "|", "|", "kp1", "\n">>) =>
        log_resources = OneEntry("keypairs", "0", "kp1")

(* C13, amended: the fields of a line are type|name|id.  Loading the file  *)
(* whose only line is keypairs|kp1| (empty id) yields                      *)
(* {keypairs: {"0": "kp1"}}; loading the file whose only line is           *)
(* keypairs||kp1 (empty name, id kp1) yields {keypairs: {"kp1": ""}}.      *)
C13_KeypairSentinel ==
    /\ Loaded(<<"keypairs", "|", "kp1", "|", "\n">>) =>
          log_resources = OneEntry("keypairs", "0", "kp1")
    /\ Loaded(<<"keypairs", "|", "|", "kp1", "\n">>) =>
          log_resources = OneEntry("keypairs", "kp1", "")

\* the line keypairs|kp1| has been loaded under the id 0
C13_Witness ==
    /\ Loaded(<<"keypairs", "|", "kp1", "|", "\n">>)
    /\ "keypairs" \in DOMAIN log_resources
    /\ "0" \in DOMAIN log_resources["keypairs"]

-----------------------------------------------------------------------------
\* the lines of the file with three fields or more, of a kind other than
\* keypairs, whose id field is empty
EmptyIdLines ==
    {k \in DOMAIN content :
        LET tokens == Split(Strip(content[k])) IN
        /\ Len(tokens) >= 3
        /\ tokens[1] # "keypairs"
        /\ tokens[3] = ""}

(* C14 as stated: after the load the inventory has no entry under the      *)
(* empty id for the kind of a line, not of kind keypairs, whose id field   *)
(* is empty.                                                               *)
C14_EmptyIdDropped ==
    log_state = "returned" =>
        \A k \in EmptyIdLines :
            LET restype == Split(Strip(content[k]))[1] IN
            restype \in DOMAIN log_resources =>
                "" \notin DOMAIN log_resources[restype]

\* the line volumes|vol1| has been loaded and an error was printed for it
C14_Witness ==
    /\ Loaded(<<"volumes", "|", "vol1", "|", "\n">>)
    /\ log_printed = <<"volumes">>
    /\ log_resources = OneEntry("volumes", "", "vol1")

-----------------------------------------------------------------------------
(* C15: when show_resources counts no resource, main has returned 0 and    *)
(* has neither asked for confirmation nor called clean().                  *)
C15_EmptyInventoryExits ==
    count = 0 =>
        /\ main_pc = "exit"
        /\ exit_code = 0
        /\ "prompt" \notin Range(effects)
        /\ "clean" \notin Range(effects)

\* an empty inventory in a run that would have asked for confirmation
C15_Witness ==
    /\ count = 0
    /\ main_pc = "exit"
    /\ opts.file = "none" /\ ~opts.dryrun /\ ~opts.auto_approve

-----------------------------------------------------------------------------
\* the configuration errors: an auth file together with a cloud profile, no
\* cloud profile and no auth URL from the environment or the auth file, an
\* invalid filter
BothAuthOptions(o) == o.rc # "none" /\ o.cloud

MissingAuth(o) == ~o.cloud /\ ~(o.OS_AUTH_URL \/ o.rc = "with_url")

InvalidFilter(o) == o.filter = "invalid"

ConfigError(o) == BothAuthOptions(o) \/ MissingAuth(o) \/ InvalidFilter(o)

(* C16: a run with a configuration error makes no remote call (no session, *)
(* probe or list, and no clean()), never gets as far as building the       *)
(* cleaners, and when it has ended its exit code is 1.                     *)
C16_ConfigErrorExitsFirst ==
    ConfigError(opts) =>
        /\ effects = <<>>
        /\ main_pc \in {"options", "credentials", "file", "filter", "exit"}
        /\ main_pc = "exit" => exit_code = 1

\* a run whose only configuration error is the filter has ended
C16_Witness ==
    /\ InvalidFilter(opts) /\ ~BothAuthOptions(opts) /\ ~MissingAuth(opts)
    /\ opts.file = "loads"
    /\ main_pc = "exit"
    /\ exit_code = 1

-----------------------------------------------------------------------------
\* the events the step adds to the trace
Added == {i \in DOMAIN trace' : i > Len(trace)}

TransitionStates == {"PENDING_CREATE", "PENDING_UPDATE", "PENDING_DELETE"}

(* C21: in a non-dry run a delete_load_balancer call is added only by an   *)
(* iteration of the load balancer loop whose get_load_balancer returned a  *)
(* status outside PENDING_CREATE / PENDING_UPDATE / PENDING_DELETE, and    *)
(* comes right after that get; an iteration whose get returned a PENDING   *)
(* status adds no delete, and when it is the last of the budget it reports *)
(* an error for the load balancer.                                         *)
C21_DeleteOnlyWhenSettled ==
    [][ ~dryrun =>
          /\ \A i \in Added :
                trace'[i].what = "delete_load_balancer" =>
                    /\ pc = "lb"
                    /\ lb_status' \in LbStatuses \ TransitionStates
                    /\ i > 1
                    /\ trace'[i - 1] =
                          Call("LoadBalancer", "get_load_balancer", trace'[i].id)
          /\ (pc = "lb" /\ lb_status' \in TransitionStates) =>
                /\ \A i \in Added : ~IsDelete(trace'[i])
                /\ (pc' # "lb" \/ idx' # idx) =>
                      /\ retry_count = 1
                      /\ trace'[Len(trace')] =
                            ReportError("LoadBalancer", "LOAD BALANCER", Cur,
                                        "after retries") ]_vars

\* a load balancer that was found PENDING by every get of the budget: it
\* has an error report and no delete call
C21_Witness ==
    /\ ~dryrun
    /\ lb_status \in TransitionStates
    /\ pc # "lb"
    /\ \E id \in Range(resources["loadbalancers"]) :
          /\ DeleteCalls(id) = {}
          /\ \E i \in Reports(id) : trace[i].res = "error"

-----------------------------------------------------------------------------
\* the cleaners are built
Constructed == ctor_i > Len(ConstructOrder)

SuppliedKinds == DOMAIN supplied.dict

(* C22 as stated: once the cleaners are built, for every kind of the       *)
(* supplied inventory, dns_zones and heat_stacks included, no list call    *)
(* was made for the kind and the cleaner's inventory of the kind is the    *)
(* supplied map.                                                           *)
C22_SuppliedVerbatim ==
    Constructed =>
        \A k \in SuppliedKinds :
            /\ k \notin Range(list_calls)
            /\ k \in DOMAIN cleaner_resources
            /\ cleaner_resources[k] = supplied.dict[k]

\* supplied DNS zones were left out because the DNS probe raised
C22_Witness ==
    /\ Constructed
    /\ "dns_zones" \in SuppliedKinds
    /\ ~probe_ok.dns
    /\ "dns_zones" \notin DOMAIN cleaner_resources

-----------------------------------------------------------------------------
\* the kinds that were listed live
ListedKinds == Range(list_calls) \cap Kinds

\* the map live discovery gives for a kind: the listed resources the filter
\* retains
Discovered(k) == BuildResourceDict(FetchResources(k))

(* C23: once the cleaners are built, the inventory has one origin.  When a *)
(* list was supplied, no kind was listed live and every entry of the       *)
(* inventory is an entry of the list; when none was supplied, every kind   *)
(* of the inventory holds its live-discovered, filter-matched entries.     *)
C23_OneOrigin ==
    Constructed =>
        IF supplied.given
        THEN /\ ListedKinds = {}
             /\ \A k \in DOMAIN cleaner_resources :
                   \A id \in DOMAIN cleaner_resources[k] :
                       /\ k \in SuppliedKinds
                       /\ id \in DOMAIN supplied.dict[k]
        ELSE \A k \in DOMAIN cleaner_resources :
                 cleaner_resources[k] = Discovered(k)

\* a list holding instances only was supplied, and the volumes of the
\* inventory were discovered live
C23_Witness ==
    /\ Constructed
    /\ supplied.given
    /\ SuppliedKinds = {"instances"}
    /\ "volumes" \in ListedKinds
    /\ "id1" \in DOMAIN cleaner_resources["volumes"]

-----------------------------------------------------------------------------
\* the kinds whose fetcher is called: those of a res_desc that are not
\* taken from the supplied inventory
ToList == {k \in Kinds : InResDesc(k) /\ ~UseSupplied(k)}

(* C24: a list call that fails gives the empty set for its kind only.      *)
(* Once the cleaners are built every kind to be listed has been listed,    *)
(* the kinds whose call failed have an empty map, and the other kinds have *)
(* their discovered entries.                                               *)
C24_FailureIsEmptySet ==
    Constructed =>
        \A k \in ToList :
            /\ k \in ListedKinds
            /\ k \in DOMAIN cleaner_resources
            /\ cleaner_resources[k] =
                  IF k \in failing THEN EmptyDict ELSE Discovered(k)

\* the listing of instances failed, and the kinds after it were discovered
C24_Witness ==
    /\ Constructed
    /\ ~supplied.given
    /\ failing = {"instances"}
    /\ cleaner_resources["instances"] = EmptyDict
    /\ "id1" \in DOMAIN cleaner_resources["routers"]

-----------------------------------------------------------------------------
\* a non-dry run over an inventory none of whose resources is left in the
\* backend has come to its end
RerunDone == backend_empty /\ ~dryrun /\ pc = "done"

(* C25: when a run is repeated after all the resources of its inventory    *)
(* are gone, no exception leaves clean(), and every resource of the        *)
(* inventory is reported as not found and none as an error.                *)
C25_RerunAllNotFound ==
    RerunDone =>
        /\ ~escaped
        /\ \A id \in Inventory :
              /\ \E i \in Reports(id) : trace[i].res = "not_found"
              /\ \A i \in Reports(id) : trace[i].res # "error"

\* the re-run is over and a DNS zone whose delete_zone raised a NotFound is
\* reported as an error
C25_Witness ==
    /\ RerunDone
    /\ \E i \in DOMAIN trace :
          /\ trace[i] = [ev |-> "call", cat |-> "AdvancedServices",
                         what |-> "delete_zone", id |-> trace[i].id,
                         res |-> "NotFound", note |-> ""]
          /\ FollowedBy(i, "error")

-----------------------------------------------------------------------------
\* main has returned
Exited == main_pc = "exit"

(* C26: a run that has reached cleanup always gets to the end of main,     *)
(* and there the summary with the count of the inventory has been printed  *)
(* and the exit code is 0, whatever the deletions did.                     *)
C26_SummaryAlways ==
    /\ [](Exited => /\ exit_code = 0
                    /\ effects = <<"summary">>
                    /\ count = Cardinality(Inventory))
    /\ <>Exited

\* main returned 0 after a run in which a resource was reported as an error
\* and an instance was still there when the wait loop gave up
C26_Witness ==
    /\ Exited /\ exit_code = 0 /\ ~dryrun
    /\ \E i \in DOMAIN trace : trace[i].ev = "report" /\ trace[i].res = "error"
    /\ deleting_instances # <<>>

-----------------------------------------------------------------------------
\* the device owners of the ports that belong to a router or to DHCP
ParentOwned ==
    {"network:router_interface", "network:dhcp", "network:router_gateway"}

\* the positions of the delete_port calls
PortDeletes == {i \in DOMAIN trace : trace[i].ev = "call" /\ trace[i].what = "delete_port"}

(* C27: no delete_port call, of the port sweep or of the network loop,     *)
(* targets a port owned by a router interface, a router gateway or DHCP.   *)
C27_SystemPortsKept ==
    \A i \in PortDeletes :
        /\ trace[i].id \in DOMAIN ports
        /\ ports[trace[i].id].device_owner \notin ParentOwned

\* a finished non-dry run in which the sweep and the network loop both
\* listed a DHCP port and left it alone
C27_Witness ==
    /\ ~dryrun /\ pc = "done"
    /\ \E p \in DOMAIN ports :
          /\ ports[p].device_owner = "network:dhcp"
          /\ \E i, j \in DOMAIN trace :
                /\ trace[i] = Call("Network", "list_ports", "")
                /\ trace[j] = Call("Network", "list_ports", ports[p].network_id)
          /\ \A i \in PortDeletes : trace[i].id # p

-----------------------------------------------------------------------------
(* C28: verify_resource_deleted makes at most max_attempts existence       *)
(* checks; it returns True at the first check that raises, all the checks  *)
(* before it having found the resource, and it returns False exactly when  *)
(* max_attempts checks were made and every one of them found the resource. *)
C28_VerifyBounded ==
    /\ pc = "lb_verify" => attempt < VERIFY_MAX_ATTEMPTS
    /\ polled.ret # "none" =>
          /\ polled.checks \in 1..VERIFY_MAX_ATTEMPTS
          /\ polled.ret = "true" <=> polled.found = polled.checks - 1
          /\ polled.ret = "false" <=>
                /\ polled.checks = VERIFY_MAX_ATTEMPTS
                /\ polled.found = VERIFY_MAX_ATTEMPTS

\* the verification of a deleted load balancer gave up after max_attempts
\* checks
C28_Witness ==
    /\ ~dryrun
    /\ polled.ret = "false"
    /\ polled.checks = VERIFY_MAX_ATTEMPTS

-----------------------------------------------------------------------------
\* the last check of the verification raised an error other than NotFound
VerifyRaisedOther == polled.last \in {"Conflict", "Error"}

(* C29 as stated: in every polling loop an error other than NotFound       *)
(* raised by the check ends the polling of the resource: the verification  *)
(* returns, and the instance is no longer waited for.                      *)
C29_ErrorMeansGone ==
    /\ VerifyRaisedOther => polled.ret = "true"
    /\ polled.errs \cap Range(deleting_instances) = {}

(* C29, amended: verify_resource_deleted returns True at the first check   *)
(* that raises an error other than NotFound, so the resource is polled no  *)
(* more; in the wait loop an instance whose get_server raises such an      *)
(* error stays among the instances waited for and is polled again in the   *)
(* next round, as long as rounds are left.                                 *)
C29_ErrorEndsVerifyOnly ==
    /\ VerifyRaisedOther =>
          /\ polled.ret = "true"
          /\ pc # "lb_verify" \/ attempt = 0
    /\ polled.errs \subseteq Range(deleting_instances)
    /\ (polled.errs # {} /\ pc = "wait") => wait_retry_count > 0

\* a round of the wait loop in which get_server raised an error other than
\* NotFound, with rounds left
C29_Witness ==
    /\ ~dryrun /\ pc = "wait"
    /\ polled.errs # {}
    /\ wait_retry_count < DEFAULT_INSTANCE_DELETE_RETRIES

-----------------------------------------------------------------------------
(* C30: in a non-dry run a network, a security group and a load balancer   *)
(* each get at most 3 delete calls, and for the load balancer in its retry *)
(* loop the PENDING states seen and the delete calls issued together are   *)
(* at most 3.                                                              *)
C30_SharedBudget ==
    ~dryrun =>
        /\ \A id \in Inventory :
              KindOf(id) \in RetriedKinds =>
                  Cardinality(DeleteCalls(id)) <= DEFAULT_RETRY_COUNT
        /\ lb_pending.id # "none" =>
              lb_pending.n + Cardinality(DeleteCalls(lb_pending.id))
                  <= DEFAULT_RETRY_COUNT

\* a load balancer seen PENDING twice and then sent one delete call
C30_Witness ==
    /\ ~dryrun
    /\ lb_pending.n = 2
    /\ Cardinality(DeleteCalls(lb_pending.id)) = 1

-----------------------------------------------------------------------------
\* the positions of the calls of the operations ops
CallsOf(ops) == {i \in DOMAIN trace : trace[i].ev = "call" /\ trace[i].what \in ops}

\* every call of the operations first comes before every call of the
\* operations then
AllBefore(first, then) ==
    \A i \in CallsOf(first), j \in CallsOf(then) : i < j

(* C31: inside a category the kinds are processed in a fixed order: every  *)
(* delete of a Heat stack, and the wait for it, comes before every delete  *)
(* of a DNS zone; every delete of an instance comes before every delete of *)
(* a flavor, keypair or image; every delete of a volume comes before every *)
(* delete of a volume snapshot.                                            *)
C31_SubOrder ==
    /\ AllBefore({"get_stack", "delete_stack", "wait_for_delete"}, {"delete_zone"})
    /\ AllBefore({"delete_server"}, {"delete_flavor", "delete_keypair", "delete_image"})
    /\ AllBefore({"delete_volume"}, {"delete_snapshot"})

\* a Heat stack was deleted and waited for, and a DNS zone deleted after it
C31_Witness ==
    /\ pc = "done"
    /\ CallsOf({"wait_for_delete"}) # {}
    /\ CallsOf({"delete_zone"}) # {}

-----------------------------------------------------------------------------
\* the backend reports no name for res: the attribute is missing, or it is
\* None or the empty string
NoName(res) == ~res.is_fip /\ (~res.has_name \/ res.name = <<>>)

\* the resources of the list whose id occurs once in it
Single == {k \in DOMAIN res_list :
              \A m \in DOMAIN res_list : res_list[m].id = res_list[k].id => m = k}

(* C32: when build_resource_dict has gone through the list, a resource     *)
(* without a name is in the dict if and only if the filter matches its id  *)
(* or its description, and its display name is its id.                     *)
C32_NoNameGetsId ==
    res_i > Len(res_list) =>
        \A k \in Single :
            LET res == res_list[k] IN
            NoName(res) =>
                /\ res.id \in DOMAIN built <=>
                      (Search(<<res.id>>) \/ Search(res.description))
                /\ res.id \in DOMAIN built => built[res.id] = <<res.id>>

\* the list has been gone through and its only resource, whose name is
\* empty and whose description matches, is not in the dict
C32_Witness ==
    /\ res_i > Len(res_list)
    /\ Len(res_list) = 1
    /\ res_list[1].has_name /\ NoName(res_list[1])
    /\ Search(res_list[1].description)
    /\ built = EmptyDict

-----------------------------------------------------------------------------
\* the operator was asked and typed an answer
Asked == "prompt" \in Range(effects)

\* the answer typed at the prompt
Answer == effects[Len(effects) - (IF effects[Len(effects)] = "clean" THEN 1 ELSE 0)]

\* the operator was asked and typed y, in either case
SaidYes == Asked /\ Answer \in {"y", "Y"}

\* the operator was asked and typed something else
SaidNo == Asked /\ Answer \notin {"y", "Y"}

\* clean() was called, in a run that is not a dry run
Mutated == ~opts.dryrun /\ "clean" \in Range(effects)

(* C33 as stated: a non-dry run calls clean() only when the operator       *)
(* answered 'y' at the prompt or the auto-confirm flag is set, with or     *)
(* without a pre-supplied list; after any other answer the run has ended   *)
(* with exit code 0 and without a call of clean().                         *)
C33_ConfirmedBeforeMutation ==
    /\ Mutated => (opts.auto_approve \/ SaidYes)
    /\ SaidNo =>
          /\ main_pc = "exit" /\ exit_code = 0
          /\ "clean" \notin Range(effects)

(* C33, amended: a non-dry run without a list file calls clean() only when *)
(* the operator answered 'y' or 'Y' or the auto-confirm flag is set, and   *)
(* after any other answer it has ended with exit code 0 without a call of  *)
(* clean(); a run with a list file never asks and calls clean() without a  *)
(* confirmation.                                                           *)
C33_ConfirmedUnlessFile ==
    /\ (Mutated /\ opts.file = "none") =>
          (opts.auto_approve \/ SaidYes)
    /\ SaidNo =>
          /\ main_pc = "exit" /\ exit_code = 0
          /\ "clean" \notin Range(effects)
    /\ opts.file # "none" => ~Asked

\* a non-dry run with a list file and without the auto-confirm flag has
\* called clean() and nobody was asked
C33_Witness ==
    /\ Mutated
    /\ opts.file = "loads" /\ ~opts.auto_approve
    /\ ~Asked

-----------------------------------------------------------------------------
\* the delete calls of inventory entries that raised an error matching both
\* tests: a Conflict whose text has "404" in it
BothMatched ==
    {i \in DOMAIN trace :
        /\ IsDelete(trace[i])
        /\ trace[i].res = "Conflict404"
        /\ trace[i].id \in Inventory}

\* the delete calls of id that were followed by another delete call of id
Retried(id) == {i \in DeleteCalls(id) : \E k \in DeleteCalls(id) : k > i}

(* C34, as stated: in every delete error handler NotFound is tested before *)
(* Conflict and both tests are textual: a delete error matching both is    *)
(* reported as not found and the delete is not issued again; only a delete *)
(* answered by a Conflict that is not a NotFound is followed by a retry.   *)
C34_NotFoundBeforeConflict ==
    /\ \A i \in BothMatched :
          /\ FollowedBy(i, "not_found")
          /\ i \notin Retried(trace[i].id)
    /\ \A id \in Inventory :
          \A i \in Retried(id) : trace[i].res = "Conflict"

(* C34, amended: the handlers of the router, network and security group    *)
(* deletes test NotFound before Conflict on the text of the error: there a *)
(* delete error matching both is reported as not found and not retried,    *)
(* and only a Conflict that is not a NotFound consumes a retry.  The load  *)
(* balancer handler tests NotFound by the class of the exception: a        *)
(* Conflict whose text has "404" in it is never reported as not found      *)
(* there, it consumes a retry and ends as 'Conflict after retries'.        *)
C34_TextualNotFoundFirst ==
    /\ \A i \in BothMatched :
          LET id == trace[i].id IN
          /\ KindOf(id) \in {"routers", "networks", "sec_groups"} =>
                /\ FollowedBy(i, "not_found")
                /\ i \notin Retried(id)
          /\ KindOf(id) = "loadbalancers" =>
                /\ ~FollowedBy(i, "not_found")
                /\ FollowedBy(i, "error") => trace[i + 1].note = "after retries"
    /\ \A id \in Inventory :
          KindOf(id) \in {"networks", "sec_groups"} =>
             \A i \in Retried(id) : trace[i].res = "Conflict"

\* a network whose delete raised a Conflict with "404" in its text and was
\* reported as not found, in a run in which a load balancer's delete raised
\* the same error and was issued again
C34_Witness ==
    /\ pc = "done"
    /\ \E i \in BothMatched :
          /\ KindOf(trace[i].id) = "networks"
          /\ FollowedBy(i, "not_found")
    /\ \E i \in BothMatched :
          /\ KindOf(trace[i].id) = "loadbalancers"
          /\ i \in Retried(trace[i].id)

-----------------------------------------------------------------------------
\* the positions of the 'successfully deleted' reports of instances
InstanceDeleted ==
    {i \in DOMAIN trace :
        /\ trace[i].ev = "report"
        /\ trace[i].what = "INSTANCE"
        /\ trace[i].res = "deleted"}

\* the positions of the calls op made on id
CallsOn(op, id) ==
    {i \in DOMAIN trace :
        trace[i].ev = "call" /\ trace[i].what = op /\ trace[i].id = id}

(* C35: in a non-dry run an instance is reported 'successfully deleted'    *)
(* only after a delete_server call on it and a later get_server on it (the *)
(* poll that raised NotFound); an instance still waited for when the wait  *)
(* loop is over is never reported as deleted.                              *)
C35_DeletedOnlyAfterDelete ==
    ~dryrun =>
       /\ \A i \in InstanceDeleted :
             \E j \in CallsOn("delete_server", trace[i].id) :
                \E k \in CallsOn("get_server", trace[i].id) : j < k /\ k < i
       /\ pc \notin {"instances", "wait"} =>
             \A x \in Range(deleting_instances) :
                \A i \in InstanceDeleted : trace[i].id # x

\* an instance reported as deleted in a run that never called delete_server
\* on it
C35_Witness ==
    /\ ~dryrun /\ pc = "done"
    /\ \E i \in InstanceDeleted :
          /\ CallsOn("delete_server", trace[i].id) = {}
          /\ \E k \in Reports(trace[i].id) : k < i /\ trace[k].res = "error"

-----------------------------------------------------------------------------
\* the inventory instances whose delete_server call returned without error
DeleteReturned ==
    {x \in Range(resources["instances"]) :
        \E j \in CallsOn("delete_server", x) : trace[j].res = "ok"}

(* C36: in a non-dry run the instances the Compute wait loop starts with   *)
(* are exactly those whose delete_server call returned without error, the  *)
(* loop never polls another instance, and no other instance is reported as *)
(* deleted.                                                                *)
C36_PolledAreDeleted ==
    ~dryrun =>
       /\ (pc = "wait" /\ wait_retry_count = DEFAULT_INSTANCE_DELETE_RETRIES) =>
             Range(deleting_instances) = DeleteReturned
       /\ pc = "wait" => Range(deleting_instances) \subseteq DeleteReturned
       /\ \A i \in InstanceDeleted : trace[i].id \in DeleteReturned

\* the wait loop about to poll an instance whose delete_server call raised
\* an error
C36_Witness ==
    /\ ~dryrun /\ pc = "wait"
    /\ \E x \in Range(deleting_instances) :
          \E j \in CallsOn("delete_server", x) :
             trace[j].res \in {"Conflict", "Error"}

\* the part of C35 and C36 that holds: an instance still waited for when
\* the wait loop is over has no 'deleted' report
StillPresentNotReported ==
    (~dryrun /\ pc \notin {"instances", "wait"}) =>
       \A x \in Range(deleting_instances) :
          \A i \in InstanceDeleted : trace[i].id # x

-----------------------------------------------------------------------------
\* the position of the ROUTER report that ends the pass of router id, 0 when
\* the pass is not over
RouterReport(id) ==
    LET r == {k \in Reports(id) : trace[k].what = "ROUTER"} IN
    IF r = {} THEN 0 ELSE CHOOSE k \in r : TRUE

\* the positions of the pass of the router loop over id: from its get_router
\* to its report
RouterPass(id) ==
    {i \in DOMAIN trace :
        /\ \E g \in CallsOn("get_router", id) : g <= i
        /\ RouterReport(id) # 0 => i <= RouterReport(id)}

\* the router was there: its get_router returned, so that the pass went on
\* to something else than the report of the router
RouterExists(id) ==
    \E g \in CallsOn("get_router", id) : g < Len(trace) /\ g + 1 # RouterReport(id)

\* the rank of a mutating call in a pass of the router loop
RouterStage(e) ==
    CASE e.what = "delete_ip" -> 1
      [] e.what = "update_router" -> 2
      [] e.what = "remove_interface_from_router" -> 3
      [] e.what = "delete_router" -> 4
      [] OTHER -> 0

\* the mutating calls of the pass over id come in the order of their ranks
RouterOrdered(id) ==
    \A i, j \in RouterPass(id) :
       (i < j /\ RouterStage(trace[i]) > 0 /\ RouterStage(trace[j]) > 0) =>
          RouterStage(trace[i]) <= RouterStage(trace[j])

(* C37: in a non-dry run, for each inventory router that exists, the calls *)
(* of its pass come in the order floating-IP deletes, gateway clear,       *)
(* interface removals, delete_router, and when the pass is over            *)
(* delete_router has been issued exactly once for the router.              *)
C37_RouterOrderAndOnce ==
    ~dryrun =>
       \A id \in Range(resources["routers"]) :
          /\ RouterOrdered(id)
          /\ Cardinality(CallsOn("delete_router", id)) <= 1
          /\ (RouterExists(id) /\ RouterReport(id) # 0) =>
                Cardinality(CallsOn("delete_router", id)) = 1

\* a router that was there and whose pass ended without a delete_router,
\* right after the listing of the floating IPs
C37_Witness ==
    /\ ~dryrun
    /\ \E id \in Range(resources["routers"]) :
          /\ RouterExists(id) /\ RouterReport(id) > 1
          /\ CallsOn("delete_router", id) = {}
          /\ trace[RouterReport(id) - 1].what = "list_ips"

\* the part of C37 that holds: the order of the calls, at most one
\* delete_router, and a pass over an existing router ends without a
\* delete_router only right after a listing (of the floating IPs or of the
\* router's ports) that raised
RouterOnceUnlessListingFails ==
    ~dryrun =>
       \A id \in Range(resources["routers"]) :
          /\ RouterOrdered(id)
          /\ Cardinality(CallsOn("delete_router", id)) <= 1
          /\ (RouterExists(id) /\ RouterReport(id) # 0 /\
              CallsOn("delete_router", id) = {}) =>
                trace[RouterReport(id) - 1].what \in {"list_ips", "list_ports"}

-----------------------------------------------------------------------------
\* the lines of the file that are blank or have fewer than three fields
BadLines == {k \in DOMAIN content : Len(Split(Strip(content[k]))) < 3}

\* the entry of line k is in the inventory under the kind of the line
LineLoaded(k) ==
    LET f == LogFields(Split(Strip(content[k]))) IN
    /\ f.restype \in DOMAIN log_resources
    /\ \E resid \in DOMAIN log_resources[f.restype] :
          log_resources[f.restype][resid] = f.resname

(* C38: the load of a pre-supplied list never aborts: no line makes        *)
(* get_resources_from_cleanup_log raise, and once the loop has passed a    *)
(* line with three fields or more, its entry is in the inventory, whatever *)
(* blank or short lines the file has.                                      *)
C38_BadLineSkipped ==
    /\ log_state # "raised"
    /\ \A k \in DOMAIN content \ BadLines :
          (k < line_no \/ log_state = "returned") => LineLoaded(k)

\* a file with a short line followed by a well-formed one: the load has
\* raised on the first line and nothing is loaded
C38_Witness ==
    /\ content = << <<"volumes", "|", "vol3", "\n">>,
                    <<"instances", "|", "vm1", "|", "i-1", "\n">> >>
    /\ log_state = "raised"
    /\ log_resources = EmptyDict

=============================================================================
